---- MODULE Spec2Model ----
(***************************************************************************)
(* Model of the cheese-core file-manager backend: the directory scanner    *)
(* (fs/scanner.rs) and the file-operation engine (fs/ops.rs), each driven  *)
(* over a bounded mpsc channel under a cooperative cancellation token.     *)
(*                                                                         *)
(* The metadata cache (cache/mod.rs) is modelled with the files it is      *)
(* asked about and the other processes that change them.  The change       *)
(* watcher (fs/watcher.rs) is modelled with its calling thread, the        *)
(* notification callback of the notify handle, and the clock.              *)
(*                                                                         *)
(* A name is a sequence of tokens (its characters); a path is a sequence   *)
(* of names.  The scanner runs over a file tree described by the record    *)
(* `tree`; races with other processes (an entry deleted between listing    *)
(* and stat, a subdirectory gone at descent time) are part of `tree`.      *)
(***************************************************************************)
EXTENDS Integers, Sequences, FiniteSets, TLC

VARIABLES
    scanner,      \* Scanner {follow_symlinks, max_depth, show_hidden} + entry point
    tree,         \* the file tree the scan runs over
    pc,           \* position of the running task
    stack,        \* call frames of scan_recursive_internal / scan_directory
    entries,      \* the `entries` buffer of the current frame
    total_count,  \* scan_directory's running total
    pending,      \* the message handed to sender.send().await
    chan,         \* messages in the bounded channel
    delivered,    \* messages the consumer has received, in order
    sent,         \* number of successful sends
    rxOpen,       \* the receiver half still exists
    cancelled,    \* CancellationToken state
    result,       \* "none" while running, then the returned Result
    op,           \* the file operation invoked: kind, sources, dest_dir, conflict, setup
    files,        \* the file tree the operation works on: path -> node
    fsys,         \* the files the metadata cache is asked about: names and inodes
    cache,        \* MetadataCache.cache: the LRU map inode -> CachedMetadata
    cth,          \* per calling thread: the cache method it runs and its locals
    now,          \* the instant; it advances with every change made to fsys
    lastFetch,    \* the last get_or_fetch that returned Ok, nothing having happened since
    inner,        \* Watcher.inner: the notify handle (None or Some) and what it watches
    watched_paths,\* Watcher.watched_paths: path -> Instant
    clock,        \* what Instant::now() returns, in milliseconds
    cb,           \* the notification callback: its position, its event, its `now`
    wcaller,      \* the thread calling start/watch/unwatch/stop: position and last result
    wsent,        \* the WatchEvents sent on the unbounded channel, in order
    whist,        \* what has happened so far: the last notification, the events sent
                  \* when stop() returned, the paths watch()ed and not unwatch()ed,
                  \* the time of the last event sent for each path
    locks         \* who holds the cache lock, the handle lock and the table lock, and
                  \* the lock steps each thread has still to take in its current call

vars == <<scanner, tree, pc, stack, entries, total_count, pending, chan,
          delivered, sent, rxOpen, cancelled, result, op, files,
          fsys, cache, cth, now, lastFetch,
          inner, watched_paths, clock, cb, wcaller, wsent, whist, locks>>

cacheVars == <<fsys, cache, cth, now, lastFetch>>
watchVars == <<inner, watched_paths, clock, cb, wcaller, wsent, whist, locks>>

scanVars == <<scanner, tree, entries, total_count>>
opVars == <<op, files>>

\* A Watcher that is not part of the run: as constructed, never started.
NoHandle == [some |-> FALSE, watches |-> {}]
NoRaw == [kind |-> [tag |-> "none", sub |-> "none"], paths |-> <<>>]
IdleCallback == [pc |-> "idle", event |-> NoRaw, now |-> 0]
IdleCaller == [pc |-> "idle", fn |-> "none", status |-> "none"]
NoHistory == [last |-> [path |-> <<>>, at |-> 0, emitted |-> FALSE], n |-> 0,
              sent_at_stop |-> 0, watched |-> {}, emitted_at |-> <<>>]

\* The threads that take locks: two callers and the thread of the notify
\* backend, which runs the callback.
LockCallers == {"caller1", "caller2"}
LockThreads == LockCallers \cup {"notify"}

\* No lock is held and no thread is inside a call.
NoLocks == [mutex |-> [l \in {"inner", "watched_paths"} |-> "free"],
            writer |-> "free", readers |-> {},
            call |-> [t \in LockThreads |-> "none"],
            steps |-> [t \in LockThreads |-> <<>>]]

NoWatcher ==
    /\ locks = NoLocks
    /\ inner = NoHandle
    /\ watched_paths = <<>>
    /\ clock = 0
    /\ cb = IdleCallback
    /\ wcaller = IdleCaller
    /\ wsent = <<>>
    /\ whist = NoHistory

-----------------------------------------------------------------------------
(* Program constants *)

BATCH_SIZE == 100
PathDepthLimit == 256

(* Bounds of the model *)

MaxFullBatches == 1   \* a directory holds up to this many full batches of plain files...
MaxRemainder == 1     \* ...plus up to this many more
MaxDepth == 2         \* max_depth ranges over 0..MaxDepth
MaxHops == 1          \* the scan root is reached through up to this many symlinks
ChanCap == 1          \* capacity of the mpsc channel

-----------------------------------------------------------------------------
(* The file tree seen by the scanner *)

Last(s) == s[Len(s)]
Front(s) == SubSeq(s, 1, Len(s) - 1)
Range(s) == {s[i] : i \in 1..Len(s)}

RECURSIVE Flatten(_)
Flatten(batches) ==
    IF batches = <<>> THEN <<>>
    ELSE Head(batches).entries \o Flatten(Tail(batches))

TargetDir == << <<"r">> >>
Link(k) == IF k = 0 THEN TargetDir ELSE << <<"l", k>> >>
SubDir == TargetDir \o << <<"s">> >>

\* Path with the symlinks of its first component resolved.
Canon(p) == IF p[1][1] = "l" THEN TargetDir \o Tail(p) ELSE p

Child(name, kind, statFails) == [name |-> name, kind |-> kind, statFails |-> statFails]

Fillers(n) == [i \in 1..n |-> Child(<<"f", ToString(i)>>, "file", FALSE)]

\* What read_dir(p) followed by next_entry() yields, in order.
Listing(p) ==
    LET q == Canon(p) IN
    IF q = TargetDir THEN
        (IF tree.specials
         THEN << Child(<<".", "h">>, "file", FALSE),
                 Child(<<".", "d">>, "dir", FALSE),
                 Child(<<"s">>, "dir", FALSE),
                 Child(<<"y">>, "symlink", FALSE),
                 Child(<<"g">>, "file", tree.gone) >>
         ELSE <<>>) \o Fillers(tree.fill)
    ELSE IF q = TargetDir \o << <<".", "d">> >> THEN << Child(<<"x">>, "file", FALSE) >>
    ELSE IF q = SubDir THEN
        << Child(<<"a">>, "file", FALSE), Child(<<"t">>, "dir", FALSE),
           Child(<<".", "b">>, "file", FALSE) >>
    ELSE IF q = SubDir \o << <<"t">> >> THEN
        << Child(<<"c">>, "file", FALSE), Child(<<"u">>, "dir", FALSE) >>
    ELSE IF q = SubDir \o << <<"t">>, <<"u">> >> THEN << Child(<<"e">>, "file", FALSE) >>
    ELSE <<>>

\* State of a path at the moment the scan opens it.
DirState(p) ==
    LET q == Canon(p) IN
    IF q = TargetDir THEN tree.rootState
    ELSE IF q = SubDir THEN tree.subState
    ELSE "ok"

exists(p) == DirState(p) # "missing"
is_dir(p) == DirState(p) \in {"ok", "unreadable"}
is_symlink(p) == Len(p) = 1 /\ p[1][1] = "l"
read_link(p) == Link(p[1][2] - 1)

-----------------------------------------------------------------------------
(* fs/mod.rs *)

from_path(parent, child) ==
    IF child.statFails THEN [ok |-> FALSE]
    ELSE [ok |-> TRUE,
          name |-> child.name,
          path |-> parent \o <<child.name>>,
          is_dir |-> child.kind = "dir",
          is_symlink |-> child.kind = "symlink"]

is_hidden_last(e) == Len(e.name) > 0 /\ e.name[Len(e.name)] = "."

is_hidden(e) == Len(e.name) > 0 /\ e.name[1] = "."

validate_path(p) ==
    IF ~exists(p) THEN "NotFound"
    ELSE IF Len(p) > PathDepthLimit THEN "InvalidPath"
    ELSE "Ok"

RECURSIVE symlink_walk(_, _, _)
symlink_walk(current, depth, max_depth) ==
    IF is_symlink(current)
    THEN IF depth >= max_depth THEN [ok |-> FALSE, path |-> current]
         ELSE symlink_walk(read_link(current), depth + 1, max_depth)
    ELSE [ok |-> TRUE, path |-> current]

check_symlink_loop(p, max_depth) == symlink_walk(p, 0, max_depth)

-----------------------------------------------------------------------------
(* fs/scanner.rs *)

Frame(path, depth) == [path |-> path, depth |-> depth, pos |-> 1, subdirs |-> <<>>]

ScanResult_afterReplace(es, count, complete) ==
    [entries |-> <<>>, total_count |-> count, is_complete |-> complete]

ScanResult(es, count, complete) ==
    [entries |-> es, total_count |-> count, is_complete |-> complete]

NoMsg == ScanResult(<<>>, 0, FALSE)

\* `return Err(e)` propagated by `?` through every frame: locals are dropped.
Fail(e) ==
    /\ result' = e
    /\ pc' = "done"
    /\ stack' = <<>>
    /\ entries' = <<>>
    /\ pending' = NoMsg

\* `Ok(())` of the current frame.
ReturnOk ==
    /\ entries' = <<>>
    /\ pending' = NoMsg
    /\ IF Len(stack) = 1
       THEN /\ result' = "Ok"
            /\ pc' = "done"
            /\ stack' = <<>>
       ELSE /\ result' = result
            /\ pc' = "descend"
            /\ stack' = Front(stack)

\* A depth test that lets the directories at depth max_depth through.
at_max_depth_inclusive(depth, max_depth) == depth > max_depth

\* `if depth >= self.max_depth { return Ok(()); }`
at_max_depth(depth, max_depth) == depth >= max_depth

\* Entry of scan_directory / scan_recursive_internal up to read_dir().
ScanCall ==
    /\ pc = "call"
    /\ LET f == Last(stack)
           rec == scanner.mode = "recursive"
           r == IF scanner.follow_symlinks
                THEN check_symlink_loop(f.path, scanner.max_depth)
                ELSE [ok |-> TRUE, path |-> f.path]
       IN  /\ IF rec /\ at_max_depth(f.depth, scanner.max_depth) THEN ReturnOk
              ELSE IF rec /\ cancelled THEN Fail("Cancelled")
              ELSE IF validate_path(f.path) # "Ok" THEN Fail(validate_path(f.path))
              ELSE IF ~r.ok THEN Fail("SymlinkLoop")
              ELSE IF ~is_dir(r.path)
                   THEN IF rec THEN ReturnOk ELSE Fail("InvalidPath")
              ELSE IF DirState(r.path) = "unreadable" THEN Fail("Io")
              ELSE /\ stack' = Front(stack) \o <<Frame(r.path, f.depth)>>
                   /\ entries' = <<>>
                   /\ pc' = "loop"
                   /\ UNCHANGED <<pending, result>>
    /\ total_count' = 0
    /\ UNCHANGED <<opVars, cacheVars, watchVars>>
    /\ UNCHANGED <<scanner, tree, chan, delivered, sent, rxOpen, cancelled>>

\* A flush that waits for one entry more than a batch.
batch_full_above(es) == Len(es) > BATCH_SIZE

\* `if entries.len() >= BATCH_SIZE`
batch_full(es) == Len(es) >= BATCH_SIZE

\* One iteration of `while let Some(entry) = read_dir.next_entry().await?`,
\* or the code after the loop when the listing is exhausted.
ScanNextEntry ==
    /\ pc = "loop"
    /\ LET f == Last(stack)
           L == Listing(f.path)
           rec == scanner.mode = "recursive"
       IN  IF f.pos > Len(L)
           THEN /\ UNCHANGED total_count
                /\ IF rec
                   THEN IF entries # <<>>
                        THEN /\ pending' = ScanResult(entries, 0, FALSE)
                             /\ entries' = <<>>
                             /\ pc' = "sendlast"
                             /\ UNCHANGED <<stack, result>>
                        ELSE /\ pc' = "descend"
                             /\ UNCHANGED <<stack, entries, pending, result>>
                   ELSE IF entries # <<>> \/ total_count = 0
                        THEN /\ pending' = ScanResult(entries, total_count, TRUE)
                             /\ entries' = <<>>
                             /\ pc' = "sendlast"
                             /\ UNCHANGED <<stack, result>>
                        ELSE ReturnOk
           ELSE IF cancelled THEN Fail("Cancelled") /\ UNCHANGED total_count
           ELSE LET d == from_path(f.path, L[f.pos])
                    keep == d.ok /\ (scanner.show_hidden \/ ~is_hidden(d))
                    subs == IF keep /\ rec /\ d.is_dir /\ ~d.is_symlink
                            THEN Append(f.subdirs, d.path) ELSE f.subdirs
                    es == IF keep THEN Append(entries, d) ELSE entries
                    cnt == IF keep /\ ~rec THEN total_count + 1 ELSE total_count
                IN  /\ stack' = Front(stack) \o
                                 <<[f EXCEPT !.pos = f.pos + 1, !.subdirs = subs]>>
                    /\ total_count' = cnt
                    /\ result' = result
                    /\ IF keep /\ batch_full(es)
                       THEN /\ pending' = ScanResult(es, cnt, FALSE)
                            /\ entries' = <<>>
                            /\ pc' = "send"
                       ELSE /\ entries' = es
                            /\ pc' = "loop"
                            /\ UNCHANGED pending
    /\ UNCHANGED <<opVars, cacheVars, watchVars>>
    /\ UNCHANGED <<scanner, tree, chan, delivered, sent, rxOpen, cancelled>>

\* sender.send(batch).await.map_err(|_| Error::Cancelled)?
\* A full channel suspends the sender; a closed one fails the send.
ScanSend ==
    /\ pc \in {"send", "sendlast"}
    /\ IF ~rxOpen
       THEN Fail("Cancelled") /\ UNCHANGED <<chan, sent>>
       ELSE /\ Len(chan) < ChanCap
            /\ chan' = Append(chan, pending)
            /\ sent' = sent + 1
            /\ IF pc = "send"
               THEN /\ pc' = "loop"
                    /\ pending' = NoMsg
                    /\ UNCHANGED <<stack, entries, result>>
               ELSE IF scanner.mode = "recursive"
                    THEN /\ pc' = "descend"
                         /\ pending' = NoMsg
                         /\ UNCHANGED <<stack, entries, result>>
                    ELSE ReturnOk
    /\ UNCHANGED <<opVars, cacheVars, watchVars>>
    /\ UNCHANGED <<scanner, tree, total_count, delivered, rxOpen, cancelled>>

\* A descent that may start while the last batch of the directory is still
\* waiting to be sent, and then drops that batch.
ScanDescend_beforeFlush ==
    /\ pc \in {"descend", "sendlast"}
    /\ scanner.mode = "recursive"
    /\ LET f == Last(stack) IN
       IF f.subdirs = <<>>
       THEN ReturnOk
       ELSE /\ stack' = Front(stack)
                        \o <<[f EXCEPT !.subdirs = Tail(f.subdirs)]>>
                        \o <<Frame(Head(f.subdirs), f.depth + 1)>>
            /\ pc' = "call"
            /\ pending' = NoMsg
            /\ UNCHANGED <<entries, result>>
    /\ UNCHANGED <<opVars, cacheVars, watchVars>>
    /\ UNCHANGED <<scanner, tree, total_count, chan, delivered, sent, rxOpen, cancelled>>

\* `for subdir in subdirs { self.scan_recursive_internal(subdir, depth + 1, ..).await?; }`
ScanDescend ==
    /\ pc = "descend"
    /\ LET f == Last(stack) IN
       IF f.subdirs = <<>>
       THEN ReturnOk
       ELSE /\ stack' = Front(stack)
                        \o <<[f EXCEPT !.subdirs = Tail(f.subdirs)]>>
                        \o <<Frame(Head(f.subdirs), f.depth + 1)>>
            /\ pc' = "call"
            /\ UNCHANGED <<entries, pending, result>>
    /\ UNCHANGED <<opVars, cacheVars, watchVars>>
    /\ UNCHANGED <<scanner, tree, total_count, chan, delivered, sent, rxOpen, cancelled>>

-----------------------------------------------------------------------------
(* The caller's side of the channel and of the token *)

Cancel ==
    /\ ~cancelled
    /\ result = "none"
    /\ cancelled' = TRUE
    /\ UNCHANGED <<opVars, cacheVars, watchVars>>
    /\ UNCHANGED <<scanner, tree, pc, stack, entries, total_count, pending, chan,
                   delivered, sent, rxOpen, result>>

Recv ==
    /\ rxOpen
    /\ chan # <<>>
    /\ delivered' = Append(delivered, Head(chan))
    /\ chan' = Tail(chan)
    /\ UNCHANGED <<opVars, cacheVars, watchVars>>
    /\ UNCHANGED <<scanner, tree, pc, stack, entries, total_count, pending, sent,
                   rxOpen, cancelled, result>>

DropReceiver ==
    /\ rxOpen
    /\ result = "none"
    /\ rxOpen' = FALSE
    /\ chan' = <<>>
    /\ UNCHANGED <<opVars, cacheVars, watchVars>>
    /\ UNCHANGED <<scanner, tree, pc, stack, entries, total_count, pending,
                   delivered, sent, cancelled, result>>

-----------------------------------------------------------------------------
(* Scanner specification *)

FillSizes == {k * BATCH_SIZE + r : k \in 0..MaxFullBatches, r \in 0..MaxRemainder}

Trees ==
    { t \in [rootState : {"ok", "notdir", "missing", "unreadable"},
             hops : 0..MaxHops,
             fill : FillSizes,
             specials : BOOLEAN,
             gone : BOOLEAN,
             subState : {"ok", "missing", "unreadable", "notdir"}] :
        /\ (t.rootState # "ok") => (t.fill = 0 /\ ~t.specials)
        /\ ~t.specials => (~t.gone /\ t.subState = "ok")
        \* races and symlinked roots are tried on the small directories
        /\ (t.gone \/ t.subState # "ok" \/ t.hops > 0) => t.fill <= MaxRemainder }

Scanners ==
    { s \in [mode : {"directory", "recursive"},
             follow_symlinks : BOOLEAN,
             max_depth : 0..MaxDepth,
             show_hidden : BOOLEAN] : TRUE }

ScanInit ==
    /\ tree \in Trees
    /\ scanner \in Scanners
    /\ (tree.hops = 0 => scanner.follow_symlinks)
    /\ (scanner.mode = "directory" /\ tree.hops = 0 => scanner.max_depth = MaxDepth)
    /\ (~tree.specials => ~scanner.show_hidden)
    /\ pc = "call"
    /\ stack = <<Frame(Link(tree.hops), 0)>>
    /\ entries = <<>>
    /\ total_count = 0
    /\ pending = NoMsg
    /\ chan = <<>>
    /\ delivered = <<>>
    /\ sent = 0
    /\ rxOpen = TRUE
    /\ cancelled = FALSE
    /\ result = "none"
    /\ op = [kind |-> "scan"]
    /\ files = <<>>
    /\ fsys = <<>>
    /\ cache = <<>>
    /\ cth = <<>>
    /\ now = 0
    /\ lastFetch = <<>>
    /\ NoWatcher

ScanNext ==
    \/ ScanCall
    \/ ScanNextEntry
    \/ ScanSend
    \/ ScanDescend
    \/ Cancel
    \/ Recv
    \/ DropReceiver

ScanSpec == ScanInit /\ [][ScanNext]_vars

-----------------------------------------------------------------------------
(* The file tree seen by the file operations.  A node is a directory or a  *)
(* regular file; a file's content is the first `len` bytes of the byte     *)
(* stream `id` (the empty content is id 0, len 0).                         *)

BUFFER_SIZE == 1024 * 1024
MaxAttempts == 9999

MaxSources == 2     \* an operation is given up to this many source paths
MaxChunks == 1      \* the sized source file holds up to this many full buffers (+1 byte)
MaxNumbered == 2    \* numbered siblings "n (j).x", j <= MaxNumbered, may pre-exist

DirNode == [kind |-> "dir"]
FileNode(id, len, mode) ==
    [kind |-> "file", id |-> IF len = 0 THEN 0 ELSE id, len |-> len, mode |-> mode]

DirA == << <<"a">> >>
DirD == << <<"d">> >>
NameNX == <<"n", ".", "x">>
NameK == <<"k">>
Numbered(stem, j, ext) ==
    stem \o <<" (", ToString(j), ")">> \o (IF ext = <<>> THEN <<>> ELSE <<".">> \o ext)

IsPrefix(p, q) == Len(p) <= Len(q) /\ SubSeq(q, 1, Len(p)) = p

RECURSIVE SeqOf(_)
SeqOf(S) == IF S = {} THEN <<>>
            ELSE LET x == CHOOSE y \in S : TRUE IN <<x>> \o SeqOf(S \ {x})

\* The tree before the operation starts.
InitialFiles(setup) ==
    LET base == (DirA :> DirNode) @@ (DirD :> DirNode)
                @@ (DirA \o <<NameNX>> :> FileNode(1, setup.size, "0600"))
                @@ (DirA \o <<NameK>> :> DirNode)
                @@ (DirA \o <<NameK, <<"p">> >> :> FileNode(2, 1, "0644"))
                @@ (DirA \o <<NameK, <<"q", ".", "y">> >> :> FileNode(3, 1, "0640"))
        occ == IF setup.conflict
               THEN (DirD \o <<NameNX>> :> FileNode(4, 1, "0644"))
               ELSE <<>>
        num == [q \in {DirD \o <<Numbered(<<"n">>, j, <<"x">>)>> : j \in setup.numbered}
                   |-> FileNode(5, 1, "0644")]
    IN  base @@ occ @@ num

\* st_dev of the filesystem holding p.
Dev(p) == IF p[1] = DirD[1] THEN op.setup.destDev ELSE 1

path_exists(fs, p) == p \in DOMAIN fs
path_is_dir(fs, p) == p \in DOMAIN fs /\ fs[p].kind = "dir"

\* read_dir(p): the children of p, in the order the OS lists them.
read_dir(fs, p) == SeqOf({q \in DOMAIN fs : Len(q) = Len(p) + 1 /\ IsPrefix(p, q)})

remove_file(fs, p) == [q \in DOMAIN fs \ {p} |-> fs[q]]
\* Removes the directory node but not what it holds.
remove_dir_all_shallow(fs, p) == remove_file(fs, p)

remove_dir_all(fs, p) == [q \in {r \in DOMAIN fs : ~IsPrefix(p, r)} |-> fs[q]]

\* rename(from, to) of a file or of a whole directory; `to` does not exist.
rename(fs, from, to) ==
    LET moved == {q \in DOMAIN fs : IsPrefix(from, q)}
        Target(q) == to \o SubSeq(q, Len(from) + 1, Len(q))
    IN  [q \in (DOMAIN fs \ moved) \cup {Target(r) : r \in moved} |->
            IF q \in DOMAIN fs \ moved THEN fs[q]
            ELSE fs[CHOOSE r \in moved : Target(r) = q]]

\* File::create(dest): a new empty file, or the existing one truncated.
create(fs, dest) ==
    (dest :> FileNode(0, 0, IF dest \in DOMAIN fs THEN fs[dest].mode ELSE "0644")) @@ fs

-----------------------------------------------------------------------------
(* fs/ops.rs *)

OperationProgress(current_bytes, total_bytes, current_file, files_processed, total_files) ==
    [current_bytes |-> current_bytes, total_bytes |-> total_bytes,
     current_file |-> current_file, files_processed |-> files_processed,
     total_files |-> total_files]

\* Path::file_stem / Path::extension of a file name.
LastDot(name) ==
    LET dots == {i \in 1..Len(name) : name[i] = "."} IN
    IF dots = {} THEN 0 ELSE CHOOSE i \in dots : \A j \in dots : j <= i

file_stem(name) == IF LastDot(name) <= 1 THEN name ELSE SubSeq(name, 1, LastDot(name) - 1)
extension(name) == IF LastDot(name) <= 1 THEN <<>>
                   ELSE SubSeq(name, LastDot(name) + 1, Len(name))

\* format!("{} ({})", stem, counter) or format!("{} ({}).{}", stem, counter, ext)
new_name(stem, counter, ext) ==
    IF ext = <<>> THEN stem \o <<" (", ToString(counter), ")">>
    ELSE stem \o <<" (", ToString(counter), ")">> \o <<".">> \o ext

\* A search that gives up one candidate early.
probe_unique_short(fs, path, counter) ==
    LET new_path(c) == Front(path) \o
                       <<new_name(file_stem(Last(path)), c, extension(Last(path)))>>
        taken(c) == path_exists(fs, new_path(c))
    IN  IF \A c \in counter..(MaxAttempts - 1) : taken(c) THEN [ok |-> FALSE]
        ELSE [ok |-> TRUE,
              path |-> new_path(CHOOSE c \in counter..(MaxAttempts - 1) :
                                    ~taken(c) /\ \A b \in counter..(c - 1) : taken(b))]

\* The loop of find_unique_name entered with `counter`: the candidates of
\* counter, counter + 1, ... are tried in this order; the first that does
\* not exist is returned, and the loop fails once the counter has passed
\* MaxAttempts.
probe_unique(fs, path, counter) ==
    LET new_path(c) == Front(path) \o
                       <<new_name(file_stem(Last(path)), c, extension(Last(path)))>>
        taken(c) == path_exists(fs, new_path(c))
    IN  IF \A c \in counter..MaxAttempts : taken(c) THEN [ok |-> FALSE]
        ELSE [ok |-> TRUE,
              path |-> new_path(CHOOSE c \in counter..MaxAttempts :
                                    ~taken(c) /\ \A b \in counter..(c - 1) : taken(b))]

find_unique_name_from0(fs, path) == probe_unique(fs, path, 0)

find_unique_name(fs, path) == probe_unique(fs, path, 1)

\* get_size_recursive summed over a list of existing paths.
RECURSIVE get_size_recursive(_, _)
get_size_recursive(fs, paths) ==
    IF paths = <<>> THEN 0
    ELSE (IF fs[Head(paths)].kind = "file" THEN fs[Head(paths)].len
          ELSE get_size_recursive(fs, read_dir(fs, Head(paths))))
         + get_size_recursive(fs, Tail(paths))

calculate_total_size(fs, paths) ==
    IF \E i \in 1..Len(paths) : ~path_exists(fs, paths[i]) THEN [ok |-> FALSE]
    ELSE [ok |-> TRUE, size |-> get_size_recursive(fs, paths)]

preserve_metadata(fs, src, dest) == [fs EXCEPT ![dest].mode = fs[src].mode]

\* The #[cfg(not(unix))] body.
is_same_filesystem_nonunix(p1, p2) == FALSE

is_same_filesystem(p1, p2) == Dev(p1) = Dev(p2)

\* The root directory "/": the empty sequence of components.
RootDir == <<>>

\* Path::file_name: None for the root and for a path that ends in "..".
file_name(path) ==
    IF path = RootDir \/ Last(path) = <<"..">>
    THEN [some |-> FALSE, name |-> <<>>]
    ELSE [some |-> TRUE, name |-> Last(path)]

\* The arm of `match conflict` taken when the destination exists.
on_conflict_noskip(conflict) == IF conflict = "Rename" THEN "rename" ELSE "overwrite"

on_conflict(conflict) ==
    IF conflict = "Skip" THEN "continue"
    ELSE IF conflict = "Overwrite" THEN "overwrite"
    ELSE "rename"

CopyFilesFrame(sources, dest_dir, conflict) ==
    [fn |-> "copy_files", sources |-> sources, dest_dir |-> dest_dir,
     conflict |-> conflict, i |-> 1, total_bytes |-> 0, total_files |-> 0,
     bytes_copied |-> 0, files_processed |-> 0]

CopyFileFrame(src, dest) == [fn |-> "copy_file", src |-> src, dest |-> dest, offset |-> 0]

\* Index of the copy_files frame whose counters the running copy updates.
CountersAt == CHOOSE i \in 1..Len(stack) :
                  /\ stack[i].fn = "copy_files"
                  /\ \A j \in (i + 1)..Len(stack) : stack[j].fn # "copy_files"

\* delete_files logging an I/O error and going on with the next path.
OpFail_continueDelete(e) ==
    IF e = "Io" /\ stack[1].fn = "delete_files"
    THEN /\ result' = result
         /\ pc' = "delete_item"
         /\ stack' = <<[stack[1] EXCEPT !.i = stack[1].i + 1]>>
         /\ pending' = NoMsg
    ELSE /\ result' = e
         /\ pc' = "done"
         /\ stack' = <<>>
         /\ pending' = NoMsg

OpFail(e) ==
    /\ result' = e
    /\ pc' = "done"
    /\ stack' = <<>>
    /\ pending' = NoMsg

\* Ok(()) of the top frame: control returns to the frame below, `st`.
OpReturn(st) ==
    /\ pending' = NoMsg
    /\ stack' = st
    /\ IF st = <<>>
       THEN result' = "Ok" /\ pc' = "done"
       ELSE /\ result' = result
            /\ pc' = IF Last(st).fn = "copy_files" THEN "copy_src"
                     ELSE IF Last(st).fn = "copy_directory" THEN "copy_dir"
                     ELSE "move_remove"

\* copy_files up to the `for source in sources` loop.
CopyFiles ==
    /\ pc = "copy_files"
    /\ LET f == Last(stack)
           total == calculate_total_size(files, f.sources)
       IN  IF ~path_is_dir(files, f.dest_dir) THEN OpFail("InvalidPath")
           ELSE IF ~total.ok THEN OpFail("Io")
           ELSE /\ stack' = Front(stack) \o
                      <<[f EXCEPT !.total_bytes = total.size,
                                  !.total_files = Len(f.sources)]>>
                /\ pc' = "copy_src"
                /\ UNCHANGED <<pending, result>>
    /\ UNCHANGED <<scanVars, cacheVars, watchVars>>
    /\ UNCHANGED <<op, files, chan, delivered, sent, rxOpen, cancelled>>

\* One iteration of `for source in sources` in copy_files, up to the call of
\* copy_file_with_progress.
CopySource ==
    /\ pc = "copy_src"
    /\ LET f == Last(stack) IN
       IF f.i > Len(f.sources) THEN OpReturn(Front(stack))
       ELSE IF cancelled THEN OpFail("Cancelled")
       ELSE LET source == f.sources[f.i]
                dest == f.dest_dir \o <<file_name(source).name>>
                arm == IF path_exists(files, dest) THEN on_conflict(f.conflict)
                       ELSE "overwrite"
                renamed == find_unique_name(files, dest)
                next == [f EXCEPT !.i = f.i + 1]
            IN  IF ~file_name(source).some THEN OpFail("InvalidPath")
                ELSE IF arm = "continue"
                THEN /\ stack' = Front(stack) \o <<next>>
                     /\ UNCHANGED <<pc, pending, result>>
                ELSE IF arm = "rename" /\ ~renamed.ok THEN OpFail("InvalidOperation")
                ELSE /\ stack' = Front(stack) \o <<next>> \o
                                 <<CopyFileFrame(source,
                                       IF arm = "rename" THEN renamed.path ELSE dest)>>
                     /\ pc' = "copy_file"
                     /\ UNCHANGED <<pending, result>>
    /\ UNCHANGED <<scanVars, cacheVars, watchVars>>
    /\ UNCHANGED <<op, files, chan, delivered, sent, rxOpen, cancelled>>

\* copy_file_with_progress up to its loop (File::open, File::create), or, for
\* a directory, copy_directory up to its loop (create_dir_all, read_dir).
CopyFileOpen ==
    /\ pc = "copy_file"
    /\ LET f == Last(stack) IN
       IF ~path_exists(files, f.src) THEN OpFail("Io") /\ UNCHANGED files
       ELSE IF files[f.src].kind = "dir"
       THEN IF path_exists(files, f.dest) /\ ~path_is_dir(files, f.dest)
            THEN OpFail("Io") /\ UNCHANGED files
            ELSE /\ files' = IF path_exists(files, f.dest) THEN files
                             ELSE (f.dest :> DirNode) @@ files
                 /\ stack' = Front(stack) \o
                        <<[fn |-> "copy_directory", src |-> f.src, dest |-> f.dest,
                           listing |-> read_dir(files', f.src), k |-> 1]>>
                 /\ pc' = "copy_dir"
                 /\ UNCHANGED <<pending, result>>
       ELSE IF path_is_dir(files, f.dest) THEN OpFail("Io") /\ UNCHANGED files
       ELSE /\ files' = create(files, f.dest)
            /\ pc' = "copy_chunk"
            /\ UNCHANGED <<stack, pending, result>>
    /\ UNCHANGED <<scanVars, cacheVars, watchVars>>
    /\ UNCHANGED <<op, chan, delivered, sent, rxOpen, cancelled>>

\* One iteration of the transfer loop of copy_file_with_progress up to the
\* progress send, or the code after the loop when the source is exhausted.
CopyChunk ==
    /\ pc = "copy_chunk"
    /\ LET f == Last(stack)
           c == CountersAt
           left == files[f.src].len - f.offset
           n == IF left > BUFFER_SIZE THEN BUFFER_SIZE ELSE IF left < 0 THEN 0 ELSE left
       IN  IF cancelled
           THEN /\ files' = remove_file(files, f.dest)
                /\ OpFail("Cancelled")
           ELSE IF n = 0
           THEN /\ files' = preserve_metadata(files, f.src, f.dest)
                /\ OpReturn([Front(stack) EXCEPT
                                ![c].files_processed = stack[c].files_processed + 1])
           ELSE /\ files' = [files EXCEPT ![f.dest] =
                                FileNode(files[f.src].id, f.offset + n, files[f.dest].mode)]
                /\ stack' = [stack EXCEPT
                                ![c].bytes_copied = stack[c].bytes_copied + n,
                                ![Len(stack)].offset = f.offset + n]
                /\ pending' = OperationProgress(stack[c].bytes_copied + n,
                                  stack[c].total_bytes, f.src,
                                  stack[c].files_processed, stack[c].total_files)
                /\ pc' = "copy_send"
                /\ UNCHANGED result
    /\ UNCHANGED <<scanVars, cacheVars, watchVars>>
    /\ UNCHANGED <<op, chan, delivered, sent, rxOpen, cancelled>>

\* One iteration of `while let Some(entry) = read_dir.next_entry()` in copy_directory.
CopyDirEntry ==
    /\ pc = "copy_dir"
    /\ LET f == Last(stack) IN
       IF f.k > Len(f.listing) THEN OpReturn(Front(stack))
       ELSE IF cancelled THEN OpFail("Cancelled")
       ELSE /\ stack' = Front(stack) \o <<[f EXCEPT !.k = f.k + 1]>> \o
                  <<CopyFileFrame(f.listing[f.k], f.dest \o <<Last(f.listing[f.k])>>)>>
            /\ pc' = "copy_file"
            /\ UNCHANGED <<pending, result>>
    /\ UNCHANGED <<scanVars, cacheVars, watchVars>>
    /\ UNCHANGED <<op, files, chan, delivered, sent, rxOpen, cancelled>>

\* `let _ = progress.send(..).await;`: a failed send is ignored.
ProgressSend_ignoreClosed ==
    /\ pc \in {"copy_send", "delete_send"}
    /\ IF ~rxOpen
       THEN UNCHANGED <<chan, sent>>
       ELSE /\ Len(chan) < ChanCap
            /\ chan' = Append(chan, pending)
            /\ sent' = sent + 1
    /\ pending' = NoMsg
    /\ pc' = IF pc = "copy_send" THEN "copy_chunk" ELSE "delete_item"
    /\ UNCHANGED <<stack, result>>
    /\ UNCHANGED <<scanVars, cacheVars, watchVars>>
    /\ UNCHANGED <<op, files, delivered, rxOpen, cancelled>>

\* progress.send(..).await.map_err(|_| Error::Cancelled)?
ProgressSend ==
    /\ pc \in {"copy_send", "delete_send"}
    /\ IF ~rxOpen
       THEN OpFail("Cancelled") /\ UNCHANGED <<chan, sent>>
       ELSE /\ Len(chan) < ChanCap
            /\ chan' = Append(chan, pending)
            /\ sent' = sent + 1
            /\ pending' = NoMsg
            /\ pc' = IF pc = "copy_send" THEN "copy_chunk" ELSE "delete_item"
            /\ UNCHANGED <<stack, result>>
    /\ UNCHANGED <<scanVars, cacheVars, watchVars>>
    /\ UNCHANGED <<op, files, delivered, rxOpen, cancelled>>

\* One iteration of `for source in &sources` in move_files.
MoveSource ==
    /\ pc = "move_src"
    /\ LET f == Last(stack) IN
       IF f.i > Len(f.sources) THEN OpReturn(Front(stack)) /\ UNCHANGED files
       ELSE IF cancelled THEN OpFail("Cancelled") /\ UNCHANGED files
       ELSE LET source == f.sources[f.i]
                dest == f.dest_dir \o <<file_name(source).name>>
                arm == IF path_exists(files, dest) THEN on_conflict(f.conflict)
                       ELSE "none"
                renamed == find_unique_name(files, dest)
                next == [f EXCEPT !.i = f.i + 1]
                removed == remove_file(files, dest)
            IN  IF ~file_name(source).some
                THEN OpFail("InvalidPath") /\ UNCHANGED files
                ELSE IF ~path_exists(files, source) \/ ~path_exists(files, f.dest_dir)
                THEN OpFail("Io") /\ UNCHANGED files
                ELSE IF ~is_same_filesystem(source, f.dest_dir)
                THEN /\ stack' = stack \o
                            <<CopyFilesFrame(<<source>>, f.dest_dir, f.conflict)>>
                     /\ pc' = "copy_files"
                     /\ UNCHANGED <<files, pending, result>>
                \* fs::rename into a destination that is not a directory: ENOTDIR
                ELSE IF ~path_is_dir(files, f.dest_dir)
                THEN OpFail("Io") /\ UNCHANGED files
                ELSE IF arm = "continue"
                THEN /\ stack' = Front(stack) \o <<next>>
                     /\ UNCHANGED <<files, pc, pending, result>>
                ELSE IF arm = "rename"
                THEN IF ~renamed.ok THEN OpFail("InvalidOperation") /\ UNCHANGED files
                     ELSE /\ files' = rename(files, source, renamed.path)
                          /\ stack' = Front(stack) \o <<next>>
                          /\ UNCHANGED <<pc, pending, result>>
                ELSE IF arm = "overwrite" /\ path_is_dir(files, dest)
                THEN OpFail("Io") /\ UNCHANGED files
                ELSE IF arm = "overwrite" /\ ~path_exists(removed, source)
                THEN OpFail("Io") /\ files' = removed
                ELSE /\ files' = rename(IF arm = "overwrite" THEN removed ELSE files,
                                        source, dest)
                     /\ stack' = Front(stack) \o <<next>>
                     /\ UNCHANGED <<pc, pending, result>>
    /\ UNCHANGED <<scanVars, cacheVars, watchVars>>
    /\ UNCHANGED <<op, chan, delivered, sent, rxOpen, cancelled>>

\* fs::remove_file(source) after the copy fallback of move_files returned Ok.
MoveRemoveSource ==
    /\ pc = "move_remove"
    /\ LET f == Last(stack)
           source == f.sources[f.i]
       IN  IF ~path_exists(files, source) \/ path_is_dir(files, source)
           THEN OpFail("Io") /\ UNCHANGED files
           ELSE /\ files' = remove_file(files, source)
                /\ stack' = Front(stack) \o <<[f EXCEPT !.i = f.i + 1]>>
                /\ pc' = "move_src"
                /\ UNCHANGED <<pending, result>>
    /\ UNCHANGED <<scanVars, cacheVars, watchVars>>
    /\ UNCHANGED <<op, chan, delivered, sent, rxOpen, cancelled>>

\* One iteration of `for path in paths` in delete_files, up to the progress send.
DeleteItem ==
    /\ pc = "delete_item"
    /\ LET f == Last(stack) IN
       IF f.i > Len(f.sources) THEN OpReturn(Front(stack)) /\ UNCHANGED files
       ELSE IF cancelled THEN OpFail("Cancelled") /\ UNCHANGED files
       ELSE LET path == f.sources[f.i] IN
            IF ~path_exists(files, path) THEN OpFail("Io") /\ UNCHANGED files
            ELSE /\ files' = IF path_is_dir(files, path)
                             THEN remove_dir_all(files, path)
                             ELSE remove_file(files, path)
                 /\ stack' = Front(stack) \o
                        <<[f EXCEPT !.i = f.i + 1,
                                    !.files_processed = f.files_processed + 1]>>
                 /\ pending' = OperationProgress(0, 0, path, f.files_processed + 1,
                                                 Len(f.sources))
                 /\ pc' = "delete_send"
                 /\ UNCHANGED result
    /\ UNCHANGED <<scanVars, cacheVars, watchVars>>
    /\ UNCHANGED <<op, chan, delivered, sent, rxOpen, cancelled>>

-----------------------------------------------------------------------------
(* File-operation specification *)

RECURSIVE SeqsUpTo(_, _)
SeqsUpTo(S, n) ==
    IF n = 0 THEN {<<>>}
    ELSE SeqsUpTo(S, n - 1) \cup
         {Append(q, x) : q \in {r \in SeqsUpTo(S, n - 1) : Len(r) = n - 1}, x \in S}

SourceChoices == {DirA \o <<NameNX>>, DirA \o <<NameK>>, DirD \o <<NameNX>>}

FileSizes == {0} \cup {c * BUFFER_SIZE : c \in 1..MaxChunks}
                 \cup {c * BUFFER_SIZE + 1 : c \in 1..MaxChunks}

Setups ==
    { u \in [size : FileSizes, conflict : BOOLEAN,
             numbered : SUBSET (1..MaxNumbered), destDev : {1, 2}] :
        ~u.conflict => u.numbered = {} }

Operations ==
    { o \in [kind : {"copy", "move", "delete"},
             sources : SeqsUpTo(SourceChoices, MaxSources),
             dest_dir : {DirD},
             conflict : {"Skip", "Overwrite", "Rename"},
             cancel_tripped : BOOLEAN,
             setup : Setups] :
        \* parameters an operation never reads are fixed
        /\ o.kind # "move" => o.setup.destDev = 1
        /\ o.kind = "delete" => o.conflict = "Skip"
        /\ o.conflict # "Rename" => o.setup.numbered = {}
        /\ (DirA \o <<NameNX>>) \notin Range(o.sources) => o.setup.size = 0 }

OpInit ==
    /\ op \in Operations
    /\ files = InitialFiles(op.setup)
    /\ pc = (IF op.kind = "copy" THEN "copy_files"
             ELSE IF op.kind = "move" THEN "move_src" ELSE "delete_item")
    /\ stack = <<IF op.kind = "copy"
                 THEN CopyFilesFrame(op.sources, op.dest_dir, op.conflict)
                 ELSE IF op.kind = "move"
                 THEN [fn |-> "move_files", sources |-> op.sources,
                       dest_dir |-> op.dest_dir, conflict |-> op.conflict, i |-> 1]
                 ELSE [fn |-> "delete_files", sources |-> op.sources, i |-> 1,
                       files_processed |-> 0]>>
    /\ pending = NoMsg
    /\ chan = <<>>
    /\ delivered = <<>>
    /\ sent = 0
    /\ rxOpen = TRUE
    /\ cancelled = op.cancel_tripped
    /\ result = "none"
    /\ scanner = [mode |-> "none"]
    /\ tree = [rootState |-> "missing"]
    /\ entries = <<>>
    /\ total_count = 0
    /\ fsys = <<>>
    /\ cache = <<>>
    /\ cth = <<>>
    /\ now = 0
    /\ lastFetch = <<>>
    /\ NoWatcher

OpNext ==
    \/ CopyFiles
    \/ CopySource
    \/ CopyFileOpen
    \/ CopyChunk
    \/ CopyDirEntry
    \/ ProgressSend
    \/ MoveSource
    \/ MoveRemoveSource
    \/ DeleteItem
    \/ Cancel
    \/ Recv
    \/ DropReceiver

OpSpec == OpInit /\ [][OpNext]_vars

\* The steps of the operation's own task.  The runtime polls a task that can
\* make progress, so they are taken when they stay enabled; the consumer
\* (Recv, DropReceiver) and the user (Cancel) are under no such obligation.
OpTask ==
    \/ CopyFiles
    \/ CopySource
    \/ CopyFileOpen
    \/ CopyChunk
    \/ CopyDirEntry
    \/ ProgressSend
    \/ MoveSource
    \/ MoveRemoveSource
    \/ DeleteItem

OpLiveSpec == OpSpec /\ WF_vars(OpTask)

-----------------------------------------------------------------------------
(* Copies and moves called with a destination that is not a directory or   *)
(* with a source that has no file name                                      *)

FileAsDest == DirA \o <<NameNX>>
MissingDest == << <<"z">> >>

PathSources == {DirA \o <<NameNX>>, RootDir}

PathFiles(setup) == (RootDir :> DirNode) @@ InitialFiles(setup)

PathOperations ==
    { o \in [kind : {"copy", "move"},
             sources : SeqsUpTo(PathSources, MaxSources),
             dest_dir : {DirD, FileAsDest, MissingDest},
             conflict : {"Skip", "Overwrite", "Rename"},
             cancel_tripped : {FALSE},
             setup : [size : {BUFFER_SIZE}, conflict : BOOLEAN, numbered : {{}},
                      destDev : {1, 2}]] :
        /\ o.sources # <<>>
        /\ o.kind # "move" => o.setup.destDev = 1 }

PathInit ==
    /\ op \in PathOperations
    /\ files = PathFiles(op.setup)
    /\ pc = (IF op.kind = "copy" THEN "copy_files" ELSE "move_src")
    /\ stack = <<IF op.kind = "copy"
                 THEN CopyFilesFrame(op.sources, op.dest_dir, op.conflict)
                 ELSE [fn |-> "move_files", sources |-> op.sources,
                       dest_dir |-> op.dest_dir, conflict |-> op.conflict, i |-> 1]>>
    /\ pending = NoMsg
    /\ chan = <<>>
    /\ delivered = <<>>
    /\ sent = 0
    /\ rxOpen = TRUE
    /\ cancelled = op.cancel_tripped
    /\ result = "none"
    /\ scanner = [mode |-> "none"]
    /\ tree = [rootState |-> "missing"]
    /\ entries = <<>>
    /\ total_count = 0
    /\ fsys = <<>>
    /\ cache = <<>>
    /\ cth = <<>>
    /\ now = 0
    /\ lastFetch = <<>>
    /\ NoWatcher

PathNext ==
    \/ CopyFiles
    \/ CopySource
    \/ CopyFileOpen
    \/ CopyChunk
    \/ ProgressSend
    \/ MoveSource
    \/ MoveRemoveSource
    \/ Cancel
    \/ Recv
    \/ DropReceiver

PathSpec == PathInit /\ [][PathNext]_vars

-----------------------------------------------------------------------------
(* Copies and moves under Rename into a directory where nearly every       *)
(* numbered sibling of the destination exists already                      *)

\* The numbers whose sibling "n (j).x" exists before the call: all of
\* 1..MaxAttempts, all but the last, all but 2 and the last.
CrowdedNumbers ==
    {1..MaxAttempts, 1..(MaxAttempts - 1), (1..(MaxAttempts - 1)) \ {2}}

CrowdedOperations ==
    { o \in [kind : {"copy", "move"},
             sources : {<<DirA \o <<NameNX>>>>},
             dest_dir : {DirD},
             conflict : {"Rename"},
             cancel_tripped : {FALSE},
             setup : [size : {1, BUFFER_SIZE + 1}, conflict : {TRUE},
                      numbered : CrowdedNumbers, destDev : {1, 2}]] :
        o.kind # "move" => o.setup.destDev = 1 }

CrowdedInit ==
    /\ op \in CrowdedOperations
    /\ files = InitialFiles(op.setup)
    /\ pc = (IF op.kind = "copy" THEN "copy_files" ELSE "move_src")
    /\ stack = <<IF op.kind = "copy"
                 THEN CopyFilesFrame(op.sources, op.dest_dir, op.conflict)
                 ELSE [fn |-> "move_files", sources |-> op.sources,
                       dest_dir |-> op.dest_dir, conflict |-> op.conflict, i |-> 1]>>
    /\ pending = NoMsg
    /\ chan = <<>>
    /\ delivered = <<>>
    /\ sent = 0
    /\ rxOpen = TRUE
    /\ cancelled = op.cancel_tripped
    /\ result = "none"
    /\ scanner = [mode |-> "none"]
    /\ tree = [rootState |-> "missing"]
    /\ entries = <<>>
    /\ total_count = 0
    /\ fsys = <<>>
    /\ cache = <<>>
    /\ cth = <<>>
    /\ now = 0
    /\ lastFetch = <<>>
    /\ NoWatcher

\* The operation runs to its end with a consumer that receives: the token
\* is not tripped and the receiver is not dropped.
CrowdedNext ==
    \/ CopyFiles
    \/ CopySource
    \/ CopyFileOpen
    \/ CopyChunk
    \/ ProgressSend
    \/ MoveSource
    \/ MoveRemoveSource
    \/ Recv

CrowdedSpec == CrowdedInit /\ [][CrowdedNext]_vars

-----------------------------------------------------------------------------
(* Every producer of the two channels: a scan or a file operation *)

ProducerInit == ScanInit \/ OpInit

ProducerNext ==
    \/ ScanCall
    \/ ScanNextEntry
    \/ ScanSend
    \/ ScanDescend
    \/ CopyFiles
    \/ CopySource
    \/ CopyFileOpen
    \/ CopyChunk
    \/ CopyDirEntry
    \/ ProgressSend
    \/ MoveSource
    \/ MoveRemoveSource
    \/ DeleteItem
    \/ Cancel
    \/ Recv
    \/ DropReceiver

ProducerSpec == ProducerInit /\ [][ProducerNext]_vars

-----------------------------------------------------------------------------
(* cache/mod.rs: the metadata cache.  The files it is asked about live in  *)
(* fsys: `names` maps a path to its inode, `inodes` maps an inode to what  *)
(* a stat reports.  Other processes change fsys at any time.               *)

DEFAULT_CACHE_SIZE == 10000
DefaultCapacityMb == 128
CachedMetadataSize == 104   \* size_of::<CachedMetadata>() on 64-bit unix

MaxFsChanges == 2   \* other processes change the files up to this many times
MaxInode == 2       \* regular files have the inode numbers 1..MaxInode

Threads == {1}
Sizes == {0, 4096}
Times == {1, 2}

RootPath == <<>>
PathA == << <<"d">>, <<"a">> >>
PathB == << <<"e">>, <<"b">> >>
CachePaths == {PathA, PathB}
CacheDirs == {<< <<"d">> >>, << <<"e">> >>}
RootInode == MaxInode + 1

nonCacheVars == <<scanner, tree, pc, stack, entries, total_count, pending, chan,
                  delivered, sent, rxOpen, cancelled, result, op, files,
                  inner, watched_paths, clock, cb, wcaller, wsent, whist, locks>>

NoEntry ==
    [name |-> <<>>, path |-> <<>>, size |-> 0, modified |-> 0, is_dir |-> FALSE,
     is_symlink |-> FALSE, permissions |-> "0", inode |-> 0]

NoMetadata ==
    [ok |-> FALSE, ino |-> 0, size |-> 0, modified |-> 0, is_dir |-> FALSE,
     is_symlink |-> FALSE, permissions |-> "0"]

\* std::fs::symlink_metadata(path)
symlink_metadata(fs, path) ==
    IF path \notin DOMAIN fs.names THEN NoMetadata
    ELSE LET i == fs.names[path] IN
         [ok |-> TRUE, ino |-> i, size |-> fs.inodes[i].size,
          modified |-> fs.inodes[i].modified, is_dir |-> fs.inodes[i].is_dir,
          is_symlink |-> FALSE, permissions |-> fs.inodes[i].permissions]

get_inode(metadata) == IF fsys.unix THEN metadata.ino ELSE 0

get_permissions(metadata) == IF fsys.unix THEN metadata.permissions ELSE "0"

\* DirEntry::from_path(path) of fs/mod.rs, with its own stat of the path.
DirEntry_from_path(fs, path) ==
    LET metadata == symlink_metadata(fs, path) IN
    IF ~metadata.ok THEN [status |-> "Io", entry |-> NoEntry]
    ELSE IF path = RootPath THEN [status |-> "InvalidPath", entry |-> NoEntry]
    ELSE [status |-> "Ok",
          entry |-> [name |-> Last(path), path |-> path, size |-> metadata.size,
                     modified |-> metadata.modified, is_dir |-> metadata.is_dir,
                     is_symlink |-> metadata.is_symlink,
                     permissions |-> get_permissions(metadata),
                     inode |-> get_inode(metadata)]]

(* cache/lru.rs: LruCache, most recently used item first *)

lru_new(cap) == [cap |-> cap, items |-> <<>>]

IndexOf(items, k) ==
    LET S == {i \in 1..Len(items) : items[i].key = k} IN
    IF S = {} THEN 0 ELSE CHOOSE i \in S : TRUE

Without(items, k) == SelectSeq(items, LAMBDA it : it.key # k)

lru_get(c, k) ==
    LET i == IndexOf(c.items, k) IN
    IF i = 0 THEN [found |-> FALSE, value |-> [entry |-> NoEntry, cached_at |-> 0], lru |-> c]
    ELSE [found |-> TRUE, value |-> c.items[i].value,
          lru |-> [c EXCEPT !.items = <<c.items[i]>> \o Without(c.items, k)]]

lru_put(c, k, v) ==
    LET items == <<[key |-> k, value |-> v]>> \o Without(c.items, k) IN
    [c EXCEPT !.items = IF Len(items) > c.cap THEN SubSeq(items, 1, c.cap) ELSE items]

lru_pop(c, k) == [c EXCEPT !.items = Without(c.items, k)]

lru_clear(c) == [c EXCEPT !.items = <<>>]

(* MetadataCache *)

\* A capacity taken from the budget alone, without the floor.
new_nofloor(capacity_mb) ==
    lru_new((capacity_mb * 1024 * 1024) \div CachedMetadataSize)

new(capacity_mb) ==
    LET size == (capacity_mb * 1024 * 1024) \div CachedMetadataSize IN
    lru_new(IF size > DEFAULT_CACHE_SIZE THEN size ELSE DEFAULT_CACHE_SIZE)

get(c, inode) ==
    LET r == lru_get(c, inode) IN
    [found |-> r.found, entry |-> r.value.entry, cache |-> r.lru]

\* An insert that keeps the entry the map already holds under the inode.
insert_keepOld(c, inode, entry) ==
    IF IndexOf(c.items, inode) # 0 THEN c
    ELSE lru_put(c, inode, [entry |-> entry, cached_at |-> now])

insert(c, inode, entry) == lru_put(c, inode, [entry |-> entry, cached_at |-> now])

\* A remove that leaves the map as it is.
remove_nothing(c, inode) == c

remove(c, inode) == lru_pop(c, inode)

\* `cached.entry.path.starts_with(dir)` compared by the exact path only.
starts_with_exact(path, dir) == path = dir

\* Path::starts_with: whole components, not characters.
starts_with(path, dir) == IsPrefix(dir, path)

\* Validity that looks at the size only.
is_valid_sizeOnly(cached, metadata) == cached.size = metadata.size

\* Validity that never holds: every lookup is a miss.
is_valid_never(cached, metadata) == FALSE

is_valid(cached, metadata) ==
    cached.size = metadata.size /\ cached.modified = metadata.modified

IdleThread ==
    [pc |-> "idle", fn |-> "none", path |-> RootPath, metadata |-> NoMetadata,
     entry |-> NoEntry, status |-> "none", returned |-> NoEntry, hit |-> FALSE,
     called_at |-> 0, stat_calls |-> 0, full_reads |-> 0,
     to_remove |-> <<>>, after_inval |-> FALSE, removed |-> 0, inode |-> 0]

\* The method returns: its locals are dropped, its outcome is kept.
Returned(c, status, e, hit) ==
    [c EXCEPT !.pc = "idle", !.metadata = NoMetadata, !.entry = NoEntry,
              !.to_remove = <<>>,
              !.status = status, !.returned = e, !.hit = hit]

\* The caller's previous call was invalidate(path), it returned Ok, and the
\* files have not changed since that call was made.
AfterInvalidate(t, path) ==
    /\ cth[t].fn = "invalidate"
    /\ cth[t].path = path
    /\ cth[t].status = "Ok"
    /\ cth[t].called_at = now

NoFetch == [path |-> RootPath, entry |-> NoEntry, called_at |-> 0]

\* get_or_fetch(path): `let metadata = std::fs::symlink_metadata(path)?;`
GetOrFetchStat(t, path) ==
    /\ cth[t].pc = "idle"
    /\ LET metadata == symlink_metadata(fsys, path)
           c == [IdleThread EXCEPT !.fn = "get_or_fetch", !.path = path,
                                   !.called_at = now, !.stat_calls = 1,
                                   !.after_inval = AfterInvalidate(t, path)]
       IN  IF ~metadata.ok
           THEN /\ cth' = [cth EXCEPT ![t] = Returned(c, "Io", NoEntry, FALSE)]
                /\ lastFetch' = NoFetch
           ELSE /\ cth' = [cth EXCEPT ![t] =
                              [c EXCEPT !.pc = "gof_lookup", !.metadata = metadata]]
                /\ UNCHANGED lastFetch
    /\ UNCHANGED <<fsys, cache, now>>
    /\ UNCHANGED nonCacheVars

\* get_or_fetch: `if let Some(cached) = self.get(inode) { if is_valid(..) { return Ok(cached) } }`
GetOrFetchLookup(t) ==
    /\ cth[t].pc = "gof_lookup"
    /\ LET c == cth[t]
           r == get(cache, get_inode(c.metadata))
       IN  /\ cache' = r.cache
           /\ IF r.found /\ is_valid(r.entry, c.metadata)
              THEN /\ cth' = [cth EXCEPT ![t] = Returned(c, "Ok", r.entry, TRUE)]
                   /\ lastFetch' = [path |-> c.path, entry |-> r.entry,
                                    called_at |-> c.called_at]
              ELSE /\ cth' = [cth EXCEPT ![t] = [c EXCEPT !.pc = "gof_read"]]
                   /\ UNCHANGED lastFetch
    /\ UNCHANGED <<fsys, now>>
    /\ UNCHANGED nonCacheVars

\* get_or_fetch: `let entry = DirEntry::from_path(path)?;`
GetOrFetchRead(t) ==
    /\ cth[t].pc = "gof_read"
    /\ LET c == [cth[t] EXCEPT !.stat_calls = cth[t].stat_calls + 1,
                               !.full_reads = cth[t].full_reads + 1]
           e == DirEntry_from_path(fsys, c.path)
       IN  IF e.status # "Ok"
           THEN /\ cth' = [cth EXCEPT ![t] = Returned(c, e.status, NoEntry, FALSE)]
                /\ lastFetch' = NoFetch
           ELSE /\ cth' = [cth EXCEPT ![t] =
                              [c EXCEPT !.pc = "gof_insert", !.entry = e.entry]]
                /\ UNCHANGED lastFetch
    /\ UNCHANGED <<fsys, cache, now>>
    /\ UNCHANGED nonCacheVars

\* get_or_fetch: `self.insert(inode, entry.clone()); Ok(entry)`
GetOrFetchInsert(t) ==
    /\ cth[t].pc = "gof_insert"
    /\ LET c == cth[t] IN
       /\ cache' = insert(cache, get_inode(c.metadata), c.entry)
       /\ cth' = [cth EXCEPT ![t] = Returned(c, "Ok", c.entry, FALSE)]
       /\ lastFetch' = [path |-> c.path, entry |-> c.entry, called_at |-> c.called_at]
    /\ UNCHANGED <<fsys, now>>
    /\ UNCHANGED nonCacheVars

\* invalidate(path): `let metadata = std::fs::symlink_metadata(path)?;`
InvalidateStat(t, path) ==
    /\ cth[t].pc = "idle"
    /\ LET metadata == symlink_metadata(fsys, path)
           c == [IdleThread EXCEPT !.fn = "invalidate", !.path = path,
                                   !.called_at = now, !.stat_calls = 1]
       IN  IF ~metadata.ok
           THEN cth' = [cth EXCEPT ![t] = Returned(c, "Io", NoEntry, FALSE)]
           ELSE cth' = [cth EXCEPT ![t] =
                           [c EXCEPT !.pc = "inv_remove", !.metadata = metadata]]
    /\ lastFetch' = NoFetch
    /\ UNCHANGED <<fsys, cache, now>>
    /\ UNCHANGED nonCacheVars

\* invalidate: `self.remove(inode); Ok(())`
InvalidateRemove(t) ==
    /\ cth[t].pc = "inv_remove"
    /\ cache' = remove(cache, get_inode(cth[t].metadata))
    /\ cth' = [cth EXCEPT ![t] =
                  Returned([cth[t] EXCEPT !.removed = Len(cache.items) - Len(cache'.items)],
                           "Ok", NoEntry, FALSE)]
    /\ lastFetch' = NoFetch
    /\ UNCHANGED <<fsys, now>>
    /\ UNCHANGED nonCacheVars

\* invalidate_directory(dir): the scan under `self.cache.read()`
InvalidateDirectoryScan(t, dir) ==
    /\ cth[t].pc = "idle"
    /\ LET hits == SelectSeq(cache.items,
                             LAMBDA it : starts_with(it.value.entry.path, dir))
           c == [IdleThread EXCEPT !.fn = "invalidate_directory", !.path = dir,
                                   !.called_at = now]
       IN  cth' = [cth EXCEPT ![t] =
                      [c EXCEPT !.pc = "invdir_pop",
                                !.to_remove = [i \in 1..Len(hits) |-> hits[i].key]]]
    /\ lastFetch' = NoFetch
    /\ UNCHANGED <<fsys, cache, now>>
    /\ UNCHANGED nonCacheVars

RECURSIVE pop_all(_, _)
pop_all(c, inodes) ==
    IF inodes = <<>> THEN c ELSE pop_all(lru_pop(c, Head(inodes)), Tail(inodes))

\* invalidate_directory: the pops under `self.cache.write()`, then `Ok(())`
InvalidateDirectoryPop(t) ==
    /\ cth[t].pc = "invdir_pop"
    /\ cache' = pop_all(cache, cth[t].to_remove)
    /\ cth' = [cth EXCEPT ![t] =
                  Returned([cth[t] EXCEPT !.removed = Len(cache.items) - Len(cache'.items)],
                           "Ok", NoEntry, FALSE)]
    /\ lastFetch' = NoFetch
    /\ UNCHANGED <<fsys, now>>
    /\ UNCHANGED nonCacheVars

\* clear()
Clear(t) ==
    /\ cth[t].pc = "idle"
    /\ cache' = lru_clear(cache)
    /\ cth' = [cth EXCEPT ![t] = Returned([IdleThread EXCEPT !.fn = "clear",
                                                            !.called_at = now],
                                          "Ok", NoEntry, FALSE)]
    /\ lastFetch' = NoFetch
    /\ UNCHANGED <<fsys, now>>
    /\ UNCHANGED nonCacheVars

(* Other processes working on the same files *)

FileMeta(size, modified) ==
    [size |-> size, modified |-> modified, is_dir |-> FALSE, permissions |-> "0644"]

Tick ==
    /\ now < MaxFsChanges
    /\ now' = now + 1
    /\ lastFetch' = NoFetch
    /\ UNCHANGED <<cache, cth>>
    /\ UNCHANGED nonCacheVars

\* The file at `path` is written to, or its times are set.
FsWrite(path, size, modified) ==
    /\ path \in DOMAIN fsys.names
    /\ LET i == fsys.names[path] IN
       /\ <<size, modified>> # <<fsys.inodes[i].size, fsys.inodes[i].modified>>
       /\ fsys' = [fsys EXCEPT !.inodes[i] = FileMeta(size, modified)]
    /\ Tick

FsUnlink(path) ==
    /\ path \in DOMAIN fsys.names
    /\ LET i == fsys.names[path]
           names == [q \in DOMAIN fsys.names \ {path} |-> fsys.names[q]]
       IN  fsys' = [fsys EXCEPT
                       !.names = names,
                       !.inodes = IF \E q \in DOMAIN names : names[q] = i
                                  THEN fsys.inodes
                                  ELSE [j \in DOMAIN fsys.inodes \ {i} |-> fsys.inodes[j]]]
    /\ Tick

\* A new file at `path`; the filesystem hands out any inode number not in use.
FsCreate(path, i, size, modified) ==
    /\ path \notin DOMAIN fsys.names
    /\ i \notin DOMAIN fsys.inodes
    /\ fsys' = [fsys EXCEPT !.names = (path :> i) @@ fsys.names,
                            !.inodes = (i :> FileMeta(size, modified)) @@ fsys.inodes]
    /\ Tick

\* link(target, path): a second name for the inode of `target`.
FsLink(path, target) ==
    /\ path \notin DOMAIN fsys.names
    /\ target \in DOMAIN fsys.names
    /\ fsys' = [fsys EXCEPT !.names = (path :> fsys.names[target]) @@ fsys.names]
    /\ Tick

(* Metadata-cache specification *)

CacheInit ==
    /\ fsys \in [unix : BOOLEAN,
                 names : {(RootPath :> RootInode) @@ (PathA :> 1)},
                 inodes : {(RootInode :> [size |-> 4096, modified |-> 1, is_dir |-> TRUE,
                                          permissions |-> "0755"])
                           @@ (1 :> FileMeta(0, 1))}]
    /\ cache = new(DefaultCapacityMb)
    /\ cth = [t \in Threads |-> IdleThread]
    /\ now = 0
    /\ lastFetch = NoFetch
    /\ scanner = [mode |-> "none"]
    /\ tree = [rootState |-> "missing"]
    /\ pc = "cache"
    /\ stack = <<>>
    /\ entries = <<>>
    /\ total_count = 0
    /\ pending = NoMsg
    /\ chan = <<>>
    /\ delivered = <<>>
    /\ sent = 0
    /\ rxOpen = TRUE
    /\ cancelled = FALSE
    /\ result = "none"
    /\ op = [kind |-> "cache"]
    /\ files = <<>>
    /\ NoWatcher

CacheNext ==
    \/ \E t \in Threads, path \in CachePaths \cup {RootPath} : GetOrFetchStat(t, path)
    \/ \E t \in Threads : GetOrFetchLookup(t)
    \/ \E t \in Threads : GetOrFetchRead(t)
    \/ \E t \in Threads : GetOrFetchInsert(t)
    \/ \E t \in Threads, path \in CachePaths : InvalidateStat(t, path)
    \/ \E t \in Threads : InvalidateRemove(t)
    \/ \E t \in Threads, dir \in CacheDirs : InvalidateDirectoryScan(t, dir)
    \/ \E t \in Threads : InvalidateDirectoryPop(t)
    \/ \E t \in Threads : Clear(t)
    \/ \E path \in CachePaths, size \in Sizes, modified \in Times :
          FsWrite(path, size, modified)
    \/ \E path \in CachePaths : FsUnlink(path)
    \/ \E path \in CachePaths, i \in 1..MaxInode, size \in Sizes, modified \in Times :
          FsCreate(path, i, size, modified)
    \/ \E path \in CachePaths, target \in CachePaths : FsLink(path, target)

CacheSpec == CacheInit /\ [][CacheNext]_vars

(* The cache shared by two calling threads.  Each action of a call is one    *)
(* critical section of the RwLock (or a stat made outside the lock), so the *)
(* calls of the two threads interleave between their critical sections.     *)
(* The files stay as they are: two names, for one file or for two.          *)

Callers == {1, 2}

ConcurrentInit ==
    /\ \E unix \in BOOLEAN, i \in 1..2 :
          fsys = [unix |-> unix,
                  names |-> (RootPath :> RootInode) @@ (PathA :> 1) @@ (PathB :> i),
                  inodes |-> (RootInode :> [size |-> 4096, modified |-> 1,
                                            is_dir |-> TRUE, permissions |-> "0755"])
                             @@ (1 :> FileMeta(0, 1))
                             @@ (IF i = 1 THEN <<>> ELSE (i :> FileMeta(4096, 1)))]
    /\ cache = new(DefaultCapacityMb)
    /\ cth = [t \in Callers |-> IdleThread]
    /\ now = 0
    /\ lastFetch = NoFetch
    /\ scanner = [mode |-> "none"]
    /\ tree = [rootState |-> "missing"]
    /\ pc = "cache"
    /\ stack = <<>>
    /\ entries = <<>>
    /\ total_count = 0
    /\ pending = NoMsg
    /\ chan = <<>>
    /\ delivered = <<>>
    /\ sent = 0
    /\ rxOpen = TRUE
    /\ cancelled = FALSE
    /\ result = "none"
    /\ op = [kind |-> "cache"]
    /\ files = <<>>
    /\ NoWatcher

ConcurrentNext ==
    \/ \E t \in Callers, path \in CachePaths : GetOrFetchStat(t, path)
    \/ \E t \in Callers : GetOrFetchLookup(t)
    \/ \E t \in Callers : GetOrFetchRead(t)
    \/ \E t \in Callers : GetOrFetchInsert(t)
    \/ \E t \in Callers, path \in CachePaths : InvalidateStat(t, path)
    \/ \E t \in Callers : InvalidateRemove(t)
    \/ \E t \in Callers, dir \in CacheDirs : InvalidateDirectoryScan(t, dir)
    \/ \E t \in Callers : InvalidateDirectoryPop(t)

ConcurrentSpec == ConcurrentInit /\ [][ConcurrentNext]_vars

(* The cache used through insert, get and remove by a caller that stores   *)
(* the entries it has listed, under budgets small enough to fill the map.  *)

Budgets == {0, 1}       \* capacity_mb handed to MetadataCache::new
MaxKey == 2             \* the caller names the inodes 1..MaxKey one by one
FreshBase == 100        \* the inodes of a listing are FreshBase + 1, FreshBase + 2, ...
ListingSizes == {DEFAULT_CACHE_SIZE - 1}

\* The entry of the file with inode i in the listed directory.
EntryOf(i) ==
    [name |-> <<ToString(i)>>, path |-> << <<"d">>, <<ToString(i)>> >>, size |-> 0,
     modified |-> 1, is_dir |-> FALSE, is_symlink |-> FALSE,
     permissions |-> "0644", inode |-> i]

\* insert(first, ..), insert(first + 1, ..), ..., insert(first + n - 1, ..) on a
\* map that holds none of these keys: each call puts its entry in front and
\* drops the last item of a full map.
insert_run(c, first, n) ==
    LET run == [j \in 1..n |->
                   [key |-> first + n - j,
                    value |-> [entry |-> EntryOf(first + n - j), cached_at |-> now]]]
        items == run \o c.items
    IN  [c EXCEPT !.items = IF Len(items) > c.cap THEN SubSeq(items, 1, c.cap) ELSE items]

Call(fn, inode) == [IdleThread EXCEPT !.fn = fn, !.inode = inode, !.called_at = now]

Holds(c, k) == \E i \in 1..Len(c.items) : c.items[i].key = k

\* The number of entries that have left the map when n new keys went in.
Dropped(n) == Len(cache.items) + n - Len(cache'.items)

\* insert(inode, entry)
Insert(t, inode) ==
    /\ cth[t].pc = "idle"
    /\ cache' = insert(cache, inode, EntryOf(inode))
    /\ cth' = [cth EXCEPT ![t] =
                  Returned([Call("insert", inode) EXCEPT
                               !.removed = Dropped(IF Holds(cache, inode) THEN 0 ELSE 1)],
                           "Ok", NoEntry, FALSE)]
    /\ lastFetch' = NoFetch
    /\ UNCHANGED <<fsys, now>>
    /\ UNCHANGED nonCacheVars

\* The caller stores a listing of n files: one insert per entry.
InsertListing(t, n) ==
    /\ cth[t].pc = "idle"
    /\ \A i \in 1..Len(cache.items) : cache.items[i].key <= FreshBase
    /\ cache' = insert_run(cache, FreshBase + 1, n)
    /\ cth' = [cth EXCEPT ![t] =
                  Returned([Call("insert", 0) EXCEPT !.removed = Dropped(n)],
                           "Ok", NoEntry, FALSE)]
    /\ lastFetch' = NoFetch
    /\ UNCHANGED <<fsys, now>>
    /\ UNCHANGED nonCacheVars

\* get(inode)
Get(t, inode) ==
    /\ cth[t].pc = "idle"
    /\ LET r == get(cache, inode) IN
       /\ cache' = r.cache
       /\ cth' = [cth EXCEPT ![t] =
                     Returned(Call("get", inode), IF r.found THEN "Some" ELSE "None",
                              r.entry, r.found)]
    /\ lastFetch' = NoFetch
    /\ UNCHANGED <<fsys, now>>
    /\ UNCHANGED nonCacheVars

\* remove(inode)
Remove(t, inode) ==
    /\ cth[t].pc = "idle"
    /\ cache' = remove(cache, inode)
    /\ cth' = [cth EXCEPT ![t] =
                  Returned([Call("remove", inode) EXCEPT !.removed = Dropped(0)],
                           "Ok", NoEntry, FALSE)]
    /\ lastFetch' = NoFetch
    /\ UNCHANGED <<fsys, now>>
    /\ UNCHANGED nonCacheVars

CapacityInit ==
    /\ fsys = [unix |-> TRUE,
               names |-> (RootPath :> RootInode),
               inodes |-> (RootInode :> [size |-> 4096, modified |-> 1,
                                         is_dir |-> TRUE, permissions |-> "0755"])]
    /\ \E capacity_mb \in Budgets : cache = new(capacity_mb)
    /\ cth = [t \in Threads |-> IdleThread]
    /\ now = 0
    /\ lastFetch = NoFetch
    /\ scanner = [mode |-> "none"]
    /\ tree = [rootState |-> "missing"]
    /\ pc = "cache"
    /\ stack = <<>>
    /\ entries = <<>>
    /\ total_count = 0
    /\ pending = NoMsg
    /\ chan = <<>>
    /\ delivered = <<>>
    /\ sent = 0
    /\ rxOpen = TRUE
    /\ cancelled = FALSE
    /\ result = "none"
    /\ op = [kind |-> "cache"]
    /\ files = <<>>
    /\ NoWatcher

CapacityNext ==
    \/ \E t \in Threads, inode \in 1..MaxKey : Insert(t, inode)
    \/ \E t \in Threads, n \in ListingSizes : InsertListing(t, n)
    \/ \E t \in Threads, inode \in 1..MaxKey : Get(t, inode)
    \/ \E t \in Threads, inode \in 1..MaxKey : Remove(t, inode)
    \/ \E t \in Threads : Clear(t)

CapacitySpec == CapacityInit /\ [][CapacityNext]_vars

-----------------------------------------------------------------------------
(* The cache used through insert, get and remove with entries that differ  *)
(* from one insert to the next                                             *)

\* The inodes the caller inserts, looks up and removes one by one.
EntryKeys == {1, 2}

\* The entry of inode i as listed when the file had `size` bytes.
EntrySized(i, size) == [EntryOf(i) EXCEPT !.size = size]

\* insert(inode, entry)
Put(t, inode, size) ==
    /\ cth[t].pc = "idle"
    /\ cache' = insert(cache, inode, EntrySized(inode, size))
    /\ cth' = [cth EXCEPT ![t] =
                  [Returned(Call("insert", inode), "Ok", NoEntry, FALSE)
                      EXCEPT !.entry = EntrySized(inode, size)]]
    /\ lastFetch' = NoFetch
    /\ UNCHANGED <<fsys, now>>
    /\ UNCHANGED nonCacheVars

EntryNext ==
    \/ \E t \in Threads, inode \in EntryKeys, size \in Sizes : Put(t, inode, size)
    \/ \E t \in Threads, n \in ListingSizes : InsertListing(t, n)
    \/ \E t \in Threads, inode \in EntryKeys : Get(t, inode)
    \/ \E t \in Threads, inode \in EntryKeys : Remove(t, inode)
    \/ \E t \in Threads : Clear(t)

EntrySpec == CapacityInit /\ [][EntryNext]_vars

-----------------------------------------------------------------------------
(* fs/watcher.rs: the change watcher.  The notify handle created by start() *)
(* runs the callback on its own thread; the callback shares with the        *)
(* Watcher only the table watched_paths and the sender, so it interleaves   *)
(* with the calling thread wherever neither holds the table's mutex.        *)

DEBOUNCE_DURATION == 50   \* milliseconds

MaxTicks == 2             \* the clock advances up to this many times, by TickMs each
MaxNotifications == 2     \* the handle delivers up to this many raw notifications

debounce_duration == DEBOUNCE_DURATION
TickMs == (DEBOUNCE_DURATION * 3) \div 5

SiblingB == << <<"d">>, <<"b">> >>
PathGone == << <<"x">> >>
WatchArgs == {DirD, PathA, PathGone}

Parent(p) == SubSeq(p, 1, Len(p) - 1)

(* notify::Event *)

EventKind(tag, sub) == [tag |-> tag, sub |-> sub]
Event(kind, paths) == [kind |-> kind, paths |-> paths]

RawEvents ==
    {Event(EventKind("Create", "File"), <<PathA>>),
     Event(EventKind("Modify", "Data"), <<PathA>>),
     Event(EventKind("Remove", "File"), <<PathA>>),
     Event(EventKind("Access", "Open"), <<PathA>>),
     Event(EventKind("Modify", "Data"), <<SiblingB>>),
     Event(EventKind("Modify", "Metadata"), <<DirD>>),
     Event(EventKind("Modify", "Name:Both"), <<PathA, SiblingB>>),
     Event(EventKind("Other", "none"), <<>>)}

\* The handle reports what happens to a watched path and, the watch being
\* NonRecursive, to the entries directly inside a watched directory.
Delivers(event) ==
    /\ inner.some
    /\ IF event.paths = <<>> THEN TRUE
       ELSE event.paths[1] \in inner.watches \/ Parent(event.paths[1]) \in inner.watches

(* WatchEvent; the `from` of Renamed is kept in `path` *)

Created(path) == [tag |-> "Created", path |-> path, to |-> <<>>]
Modified(path) == [tag |-> "Modified", path |-> path, to |-> <<>>]
Deleted(path) == [tag |-> "Deleted", path |-> path, to |-> <<>>]
Renamed(from, to) == [tag |-> "Renamed", path |-> from, to |-> to]
None == [tag |-> "None", path |-> <<>>, to |-> <<>>]

\* Instant::duration_since saturates at zero.
duration_since(later, earlier) == IF later >= earlier THEN later - earlier ELSE 0

\* convert_event: `match event.kind`, the arms in the order of the source.
translate(event) ==
    LET paths == event.paths
        path == paths[1]
        kind == event.kind
    IN  IF kind.tag = "Create" THEN Created(path)
        ELSE IF kind.tag = "Modify" THEN Modified(path)
        ELSE IF kind.tag = "Remove" THEN Deleted(path)
        ELSE IF kind.tag = "Modify" /\ kind.sub \in {"Name:Both", "Name:From", "Name:To", "Name:Any"}
        THEN IF kind.sub = "Name:Both"
             THEN (IF Len(paths) >= 2 THEN Renamed(paths[1], paths[2]) ELSE None)
             ELSE IF kind.sub = "Name:From" THEN Deleted(path)
             ELSE IF kind.sub = "Name:To" THEN Created(path)
             ELSE None
        ELSE None

is_watching(path) == path \in DOMAIN watched_paths
watched_count == Cardinality(DOMAIN watched_paths)

CallerReturns(fn, status) == [pc |-> "idle", fn |-> fn, status |-> status]

\* start(sender): a new notify handle takes the place of any earlier one.
Start ==
    /\ wcaller.pc = "idle"
    /\ inner' = [some |-> TRUE, watches |-> {}]
    /\ wcaller' = CallerReturns("start", "Ok")
    /\ UNCHANGED <<watched_paths, clock, cb, wsent, whist>>
    /\ UNCHANGED <<scanVars, opVars, cacheVars, locks>>
    /\ UNCHANGED <<pc, stack, pending, chan, delivered, sent, rxOpen, cancelled, result>>

\* watch(path); notify refuses a path that does not exist.
Watch(path) ==
    /\ wcaller.pc = "idle"
    /\ IF ~inner.some \/ path = PathGone
       THEN /\ wcaller' = CallerReturns("watch", "Watcher")
            /\ UNCHANGED <<inner, watched_paths, whist>>
       ELSE /\ inner' = [inner EXCEPT !.watches = @ \cup {path}]
            /\ watched_paths' = (path :> clock) @@ watched_paths
            /\ wcaller' = CallerReturns("watch", "Ok")
            /\ whist' = [whist EXCEPT !.watched = @ \cup {path}]
    /\ UNCHANGED <<clock, cb, wsent>>
    /\ UNCHANGED <<scanVars, opVars, cacheVars, locks>>
    /\ UNCHANGED <<pc, stack, pending, chan, delivered, sent, rxOpen, cancelled, result>>

\* unwatch(path); notify refuses a path it does not watch.
Unwatch(path) ==
    /\ wcaller.pc = "idle"
    /\ IF ~inner.some \/ path \notin inner.watches
       THEN /\ wcaller' = CallerReturns("unwatch", "Watcher")
            /\ UNCHANGED <<inner, watched_paths, whist>>
       ELSE /\ inner' = [inner EXCEPT !.watches = @ \ {path}]
            /\ watched_paths' = [q \in DOMAIN watched_paths \ {path} |-> watched_paths[q]]
            /\ wcaller' = CallerReturns("unwatch", "Ok")
            /\ whist' = [whist EXCEPT !.watched = @ \ {path}]
    /\ UNCHANGED <<clock, cb, wsent>>
    /\ UNCHANGED <<scanVars, opVars, cacheVars, locks>>
    /\ UNCHANGED <<pc, stack, pending, chan, delivered, sent, rxOpen, cancelled, result>>

\* stop(): `*self.inner.lock() = None;`
StopDrop ==
    /\ wcaller.pc = "idle"
    /\ inner' = NoHandle
    /\ wcaller' = [pc |-> "stop_clear", fn |-> "stop", status |-> "none"]
    /\ UNCHANGED <<watched_paths, clock, cb, wsent, whist>>
    /\ UNCHANGED <<scanVars, opVars, cacheVars, locks>>
    /\ UNCHANGED <<pc, stack, pending, chan, delivered, sent, rxOpen, cancelled, result>>

\* stop(): `self.watched_paths.lock().clear();`
StopClear ==
    /\ wcaller.pc = "stop_clear"
    /\ watched_paths' = <<>>
    /\ wcaller' = CallerReturns("stop", "Ok")
    /\ whist' = [whist EXCEPT !.sent_at_stop = Len(wsent), !.watched = {}]
    /\ UNCHANGED <<inner, clock, cb, wsent>>
    /\ UNCHANGED <<scanVars, opVars, cacheVars, locks>>
    /\ UNCHANGED <<pc, stack, pending, chan, delivered, sent, rxOpen, cancelled, result>>

\* The handle calls the closure of start() with a raw notification:
\* convert_event up to `let path = &paths[0];`.
CallbackBegin(event) ==
    /\ cb.pc = "idle"
    /\ whist.n < MaxNotifications
    /\ Delivers(event)
    /\ cb' = IF event.paths = <<>> THEN IdleCallback
             ELSE [pc |-> "table", event |-> event, now |-> clock]
    /\ whist' = [whist EXCEPT !.n = @ + 1]
    /\ UNCHANGED <<inner, watched_paths, clock, wcaller, wsent>>
    /\ UNCHANGED <<scanVars, opVars, cacheVars, locks>>
    /\ UNCHANGED <<pc, stack, pending, chan, delivered, sent, rxOpen, cancelled, result>>

\* convert_event from `watched_paths.lock()` on, then `sender.send(watch_event)`.
CallbackTable ==
    /\ cb.pc = "table"
    /\ LET path == cb.event.paths[1]
           recent == /\ path \in DOMAIN watched_paths
                     /\ duration_since(cb.now, watched_paths[path]) < debounce_duration
           out == IF recent THEN None ELSE translate(cb.event)
       IN  /\ watched_paths' = IF recent THEN watched_paths
                               ELSE (path :> cb.now) @@ watched_paths
           /\ wsent' = IF out = None THEN wsent ELSE Append(wsent, out)
           /\ whist' = [whist EXCEPT !.last = [path |-> path, at |-> cb.now,
                                               emitted |-> out # None],
                                     !.emitted_at = IF out = None THEN @
                                                    ELSE (path :> cb.now) @@ @]
    /\ cb' = IdleCallback
    /\ UNCHANGED <<inner, clock, wcaller>>
    /\ UNCHANGED <<scanVars, opVars, cacheVars, locks>>
    /\ UNCHANGED <<pc, stack, pending, chan, delivered, sent, rxOpen, cancelled, result>>

ClockTick ==
    /\ clock < MaxTicks * TickMs
    /\ clock' = clock + TickMs
    /\ UNCHANGED <<inner, watched_paths, cb, wcaller, wsent, whist>>
    /\ UNCHANGED <<scanVars, opVars, cacheVars, locks>>
    /\ UNCHANGED <<pc, stack, pending, chan, delivered, sent, rxOpen, cancelled, result>>

WatcherInit ==
    /\ NoWatcher
    /\ scanner = [mode |-> "none"]
    /\ tree = [rootState |-> "missing"]
    /\ pc = "watcher"
    /\ stack = <<>>
    /\ entries = <<>>
    /\ total_count = 0
    /\ pending = NoMsg
    /\ chan = <<>>
    /\ delivered = <<>>
    /\ sent = 0
    /\ rxOpen = TRUE
    /\ cancelled = FALSE
    /\ result = "none"
    /\ op = [kind |-> "watcher"]
    /\ files = <<>>
    /\ fsys = <<>>
    /\ cache = <<>>
    /\ cth = <<>>
    /\ now = 0
    /\ lastFetch = <<>>

WatcherNext ==
    \/ Start
    \/ \E path \in WatchArgs : Watch(path)
    \/ \E path \in WatchArgs : Unwatch(path)
    \/ StopDrop
    \/ StopClear
    \/ \E event \in RawEvents : CallbackBegin(event)
    \/ CallbackTable
    \/ ClockTick

WatcherSpec == WatcherInit /\ [][WatcherNext]_vars

-----------------------------------------------------------------------------
(* Scanner claims *)

AllSent == delivered \o chan

Names(es) == {es[i].name : i \in 1..Len(es)}
Paths(es) == {es[i].path : i \in 1..Len(es)}

\* The children a scan of the root is expected to report, from the tree alone.
VisibleRootNames ==
    LET L == Listing(TargetDir) IN
    {L[k].name : k \in {j \in 1..Len(L) : scanner.show_hidden \/ L[j].name[1] # "."}}

\* The directory the scan of the root opens: the link target when links are followed.
OpenedRoot == IF scanner.follow_symlinks THEN TargetDir ELSE Link(tree.hops)

NoRace == ~tree.gone /\ tree.subState = "ok"

Drained == rxOpen /\ chan = <<>>

\* C1: every scan that returns Ok has delivered exactly one batch flagged
\* is_complete, and that batch is the last one sent.
C1_ExactlyOneCompleteBatch ==
    (result = "Ok" /\ rxOpen /\ tree.rootState = "ok" /\ scanner.max_depth > 0) =>
        /\ Len(AllSent) >= 1
        /\ Last(AllSent).is_complete
        /\ \A i \in 1..(Len(AllSent) - 1) : ~AllSent[i].is_complete

\* C2: for an unmodified directory and a draining consumer, the batches of
\* scan_directory together hold every child of the directory (hidden ones
\* excluded unless show_hidden) exactly once, and nothing else.
C2_CompletePartition ==
    (scanner.mode = "directory" /\ result = "Ok" /\ Drained /\ NoRace) =>
        LET got == Flatten(delivered) IN
        /\ Names(got) = VisibleRootNames
        /\ Cardinality(Paths(got)) = Len(got)
        /\ \A i \in 1..Len(got) : got[i].path = OpenedRoot \o <<got[i].name>>

C2_Witness ==
    /\ scanner.mode = "directory" /\ result = "Ok" /\ Drained /\ NoRace
    /\ tree.specials /\ ~scanner.show_hidden
    /\ Len(delivered) >= 2
    /\ Len(Flatten(delivered)) > BATCH_SIZE

\* C3: once the cancellation signal is tripped, a running scan sends no
\* further batch (the final one included) and does not return Ok.
C3_NoSendAfterCancel ==
    [][(cancelled /\ result = "none")
           => (sent' = sent /\ (pc \in {"send", "sendlast"} => result' # "Ok"))]_vars

\* C4: a failure that affects a single entry (a stat that fails, a listed
\* subdirectory that is gone or unreadable when descended into) never makes
\* the scan of a valid root return an error.
C4_EntryFailureSkipped ==
    (tree.rootState = "ok" /\ tree.hops = 0) => result \in {"none", "Ok", "Cancelled"}

\* C5: with show_hidden = false no entry whose name begins with '.' is ever
\* buffered or sent and no hidden directory is descended into; with
\* show_hidden = true the hidden children of the root are delivered.
C5_HiddenFiltered ==
    /\ ~scanner.show_hidden =>
        /\ \A e \in Range(entries) \cup Range(Flatten(AllSent)) \cup Range(pending.entries) :
               e.name[1] # "."
        /\ \A i \in 1..Len(stack) : \A k \in 2..Len(stack[i].path) :
               stack[i].path[k][1] # "."
    /\ (scanner.show_hidden /\ result = "Ok" /\ Drained /\ NoRace
            /\ tree.rootState = "ok" /\ scanner.max_depth > 0) =>
        LET L == Listing(TargetDir) IN
        \A k \in 1..Len(L) : L[k].name \in Names(Flatten(delivered))

C5_Witness ==
    /\ scanner.mode = "recursive" /\ ~scanner.show_hidden /\ tree.specials
    /\ result = "Ok" /\ Drained
    /\ Len(delivered) >= 2

\* C6: a scan whose root does not exist fails with NotFound, a scan whose
\* root exists but is not a directory fails with InvalidPath, and neither
\* sends a batch.
C6_RootValidation ==
    (pc = "done" /\ ~cancelled /\ tree.hops = 0 /\ scanner.max_depth > 0) =>
        /\ tree.rootState = "missing" => (result = "NotFound" /\ sent = 0)
        /\ tree.rootState = "notdir" => (result = "InvalidPath" /\ sent = 0)

-----------------------------------------------------------------------------
(* File-operation claims *)

Initial == InitialFiles(op.setup)

Untouched(p) == p \in DOMAIN files /\ files[p] = Initial[p]

DestOf(source) == op.dest_dir \o <<Last(source)>>

\* The loop of copy_files stands at a source whose destination name exists,
\* under the Skip policy.
AtSkippedSource ==
    /\ pc = "copy_src"
    /\ ~cancelled
    /\ Last(stack).i <= Len(Last(stack).sources)
    /\ Last(stack).conflict = "Skip"
    /\ path_exists(files, Last(stack).dest_dir \o <<Last(Last(stack).sources[Last(stack).i])>>)

\* C7: under Skip, copy_files passes over a source whose destination name
\* exists without changing any file and without sending progress, and goes
\* on with the next source; no file that existed before the copy is changed.
C7_CopySkipUntouched ==
    /\ []((op.kind = "copy" /\ op.conflict = "Skip") =>
             \A p \in DOMAIN Initial : Untouched(p))
    /\ [][(AtSkippedSource /\ stack' # stack) =>
             /\ files' = files
             /\ sent' = sent /\ chan' = chan /\ pending' = pending
             /\ result' = "none" /\ pc' = "copy_src"
             /\ Len(stack') = Len(stack)
             /\ Last(stack').i = Last(stack).i + 1]_vars

C7_Witness ==
    /\ op.kind = "copy" /\ op.conflict = "Skip" /\ op.setup.conflict
    /\ op.sources = <<DirA \o <<NameNX>>, DirA \o <<NameK>>>>
    /\ result = "Ok"
    /\ path_exists(files, DirD \o <<NameK, <<"p">> >>)
    /\ sent > 0

\* C8: under Skip, move_files leaves a source whose destination name exists,
\* and the existing destination, untouched, on the rename path and on the
\* copy-then-remove path alike.
C8_MoveSkipUntouched ==
    (op.kind = "move" /\ op.conflict = "Skip") =>
        \A i \in 1..Len(op.sources) :
            (path_exists(Initial, op.sources[i]) /\ path_exists(Initial, DestOf(op.sources[i])))
                => (Untouched(op.sources[i]) /\ Untouched(DestOf(op.sources[i])))

\* C9: after copy_files of one regular file S into D under Overwrite returns
\* Ok, D/basename(S) has the content and permission bits of S, S is
\* unchanged, and the last progress message reports current_bytes =
\* total_bytes = size of S.
C9_CopyRoundTrip ==
    (/\ op.kind = "copy" /\ op.conflict = "Overwrite" /\ Len(op.sources) = 1
     /\ result = "Ok"
     /\ path_exists(Initial, op.sources[1])
     /\ Initial[op.sources[1]].kind = "file") =>
        LET S == op.sources[1] IN
        /\ path_exists(files, DestOf(S)) /\ files[DestOf(S)] = Initial[S]
        /\ Untouched(S)
        /\ (rxOpen /\ AllSent # <<>>) =>
              /\ Last(AllSent).current_bytes = Initial[S].len
              /\ Last(AllSent).total_bytes = Initial[S].len

\* The j-th numbered sibling of a source name, written out.
Sibling(name, j) ==
    IF name = NameNX THEN <<"n", " (", ToString(j), ")", ".", "x">>
    ELSE <<"k", " (", ToString(j), ")">>

\* The k smallest numbers >= 1 not among the pre-existing numbered siblings.
FirstFree(k) ==
    {j \in 1..(MaxNumbered + k) :
        /\ j \notin op.setup.numbered
        /\ Cardinality({i \in 1..j : i \notin op.setup.numbered}) <= k}

SameFsRename ==
    /\ op.conflict = "Rename"
    /\ op.kind = "copy" \/ (op.kind = "move" /\ op.setup.destDev = 1)

\* C10: under Rename, when the destination name exists, copy_files and
\* same-filesystem move_files write to '<stem> (<n>).<ext>' for the smallest
\* n >= 1 whose name does not exist and never modify an existing file;
\* copying the same file k times into an occupied destination yields the k
\* free numbered names (with none pre-existing: (1) to (k)), each a copy.
C10_RenameUnique ==
    SameFsRename =>
        /\ \A p \in DOMAIN Initial :
              (op.kind = "copy" \/ \A i \in 1..Len(op.sources) : ~IsPrefix(op.sources[i], p))
                  => Untouched(p)
        /\ (pc = "copy_file" /\ Len(stack) = 2) =>
              LET f == Last(stack) IN
              /\ ~path_exists(files, f.dest)
              /\ Last(f.dest) # Last(f.src) =>
                    \E j \in 1..MaxAttempts :
                        /\ Last(f.dest) = Sibling(Last(f.src), j)
                        /\ \A i \in 1..(j - 1) :
                               path_exists(files, op.dest_dir \o <<Sibling(Last(f.src), i)>>)
        /\ (/\ result = "Ok" /\ op.setup.conflict /\ Len(op.sources) >= 1
            /\ \A i \in 1..Len(op.sources) : op.sources[i] = DirA \o <<NameNX>>
            /\ op.kind = "move" => Len(op.sources) = 1) =>
              /\ DOMAIN files \ DOMAIN Initial =
                    {DirD \o <<Sibling(NameNX, j)>> : j \in FirstFree(Len(op.sources))}
              /\ \A p \in DOMAIN files \ DOMAIN Initial :
                    files[p] = Initial[DirA \o <<NameNX>>]
              /\ op.kind = "move" => ~path_exists(files, DirA \o <<NameNX>>)

C10_Witness ==
    /\ op.kind = "copy" /\ op.conflict = "Rename" /\ op.setup.conflict
    /\ op.setup.numbered = {2}
    /\ op.sources = <<DirA \o <<NameNX>>, DirA \o <<NameNX>>>>
    /\ op.setup.size > BUFFER_SIZE
    /\ result = "Ok"
    /\ path_exists(files, DirD \o <<Sibling(NameNX, 1)>>)

\* C11: an operation invoked with the cancellation signal already tripped
\* (valid destination, existing sources, the empty list included) returns
\* Cancelled, changes no file and sends no progress.
C11_CancelledBeforeStart ==
    (/\ op.kind \in {"copy", "move", "delete"}
     /\ op.cancel_tripped
     /\ \A i \in 1..Len(op.sources) : path_exists(Initial, op.sources[i])
     /\ pc = "done") =>
        /\ result = "Cancelled"
        /\ files = Initial
        /\ sent = 0

\* C12: when copy_files returns Cancelled while a file transfer is in flight
\* (tripped signal, or failed progress send), the destination file of that
\* transfer does not exist afterwards.
C12_NoPartialDestination ==
    [][(/\ op.kind = "copy"
        /\ pc \in {"copy_chunk", "copy_send"}
        /\ result' = "Cancelled")
           => ~path_exists(files', Last(stack).dest)]_vars

SendPcs == {"send", "sendlast", "copy_send", "delete_send"}

\* C13: a send that fails because the receiver is gone makes the producer
\* (copy, move, delete, scan) return Cancelled at once: the failing step
\* changes no file and sends nothing, and nothing happens after the return.
C13_FailedSendCancels ==
    [][/\ (pc \in SendPcs /\ ~rxOpen /\ pc' # pc) =>
              /\ result' = "Cancelled" /\ pc' = "done" /\ stack' = <<>>
              /\ files' = files /\ sent' = sent /\ chan' = chan
       /\ pc = "done" =>
              /\ pc' = "done" /\ result' = result /\ stack' = stack
              /\ files' = files /\ sent' = sent]_vars

C13_Witness ==
    /\ op.kind = "delete" /\ Len(op.sources) = 2
    /\ result = "Cancelled" /\ ~cancelled /\ ~rxOpen
    /\ ~path_exists(files, op.sources[1])
    /\ path_exists(files, op.sources[2])

\* C14: over the progress messages of one invocation, current_bytes and
\* files_processed never decrease and total_bytes and total_files never
\* change.
C14_ProgressMonotone ==
    op.kind \in {"copy", "move", "delete"} =>
        \A i \in 1..(Len(AllSent) - 1) :
            /\ AllSent[i].current_bytes <= AllSent[i + 1].current_bytes
            /\ AllSent[i].files_processed <= AllSent[i + 1].files_processed
            /\ AllSent[i].total_bytes = AllSent[i + 1].total_bytes
            /\ AllSent[i].total_files = AllSent[i + 1].total_files

CrossFs(p) == Dev(p) # Dev(op.dest_dir)

\* The source the loop of move_files is working on.
MoveItem == stack[1].sources[stack[1].i]

\* C15: in move_files, a source on another filesystem is removed only by the
\* step that follows the Ok return of its copy, after every progress message
\* of that copy; a copy that is cancelled or fails leaves the source in
\* place; a source on the destination's filesystem produces no progress
\* message.
C15_MoveObservation ==
    [][op.kind = "move" =>
        /\ \A i \in 1..Len(op.sources) :
              LET s == op.sources[i] IN
              (CrossFs(s) /\ path_exists(files, s) /\ ~path_exists(files', s)) =>
                  /\ pc = "move_remove" /\ MoveItem = s
                  /\ pending = NoMsg /\ sent' = sent
        /\ (pc' = "move_remove" /\ pc # "move_remove") =>
              /\ pc = "copy_src" /\ Len(stack) = 2
              /\ Last(stack).i > Len(Last(stack).sources)
        /\ (pending' # pending /\ pending' # NoMsg) =>
              /\ CrossFs(pending'.current_file)
              /\ IsPrefix(MoveItem, pending'.current_file)
              /\ path_exists(files', MoveItem)
        /\ (result = "none" /\ result' \notin {"none", "Ok"} /\ Len(stack) > 1) =>
              path_exists(files', MoveItem)
        /\ pc = "done" => files' = files]_vars

C15_Witness ==
    /\ op.kind = "move" /\ op.setup.destDev = 2
    /\ op.sources = <<DirA \o <<NameNX>>, DirD \o <<NameNX>>>>
    /\ op.conflict = "Rename" /\ op.setup.conflict
    /\ op.setup.size > BUFFER_SIZE
    /\ result = "Ok" /\ Len(delivered) = 2
    /\ ~path_exists(files, DirA \o <<NameNX>>)
    /\ path_exists(files, DirD \o <<Sibling(NameNX, 1)>>)
    /\ path_exists(files, DirD \o <<Sibling(NameNX, 2)>>)

\* C16: move_files of one existing source (file or directory) into a
\* directory on another filesystem, with no name conflict, no cancellation
\* and a live consumer, returns Ok; the source is then gone and the
\* destination holds its whole content under the source's base name.
C16_CrossFsMoveComplete ==
    (/\ op.kind = "move" /\ Len(op.sources) = 1
     /\ CrossFs(op.sources[1])
     /\ path_exists(Initial, op.sources[1])
     /\ ~path_exists(Initial, DestOf(op.sources[1]))
     /\ ~cancelled /\ rxOpen /\ pc = "done") =>
        LET S == op.sources[1] IN
        /\ result = "Ok"
        /\ \A p \in DOMAIN files : ~IsPrefix(S, p)
        /\ \A p \in DOMAIN Initial :
              IsPrefix(S, p) =>
                  LET q == DestOf(S) \o SubSeq(p, Len(S) + 1, Len(p)) IN
                  path_exists(files, q) /\ files[q] = Initial[p]

\* The tree once the first k paths given to delete_files are removed.
ExpectedAfter(k) ==
    [q \in {r \in DOMAIN Initial : \A j \in 1..k : ~IsPrefix(op.sources[j], r)}
        |-> Initial[q]]

\* C17: delete_files removes the paths in order, directories with all they
\* hold, and sends one message per removed item whose files_processed is the
\* item's position (the last one reaching total_files); the signal is tested
\* before each item, so on Cancelled by the signal every path not yet
\* reached is as it was.
C17_DeleteInOrder ==
    /\ [](op.kind = "delete" =>
          /\ pc = "delete_item" => files = ExpectedAfter(sent)
          /\ pc = "delete_send" =>
                /\ files = ExpectedAfter(sent + 1)
                /\ pending = OperationProgress(0, 0, op.sources[sent + 1], sent + 1,
                                                Len(op.sources))
          /\ rxOpen =>
                /\ Len(AllSent) = sent
                /\ \A k \in 1..sent :
                      AllSent[k] = OperationProgress(0, 0, op.sources[k], k, Len(op.sources))
          /\ result = "Ok" => (sent = Len(op.sources) /\ files = ExpectedAfter(sent))
          /\ (result = "Cancelled" /\ rxOpen) =>
                /\ cancelled
                /\ files = ExpectedAfter(sent)
                /\ \A j \in (sent + 1)..Len(op.sources) :
                      (/\ path_exists(Initial, op.sources[j])
                       /\ \A i \in 1..sent : ~IsPrefix(op.sources[i], op.sources[j]))
                          => \A p \in DOMAIN Initial :
                                 IsPrefix(op.sources[j], p) => Untouched(p))
    /\ [][(op.kind = "delete" /\ pc = "delete_item" /\ cancelled) => files' = files]_vars

C17_Witness ==
    /\ op.kind = "delete"
    /\ op.sources = <<DirA \o <<NameK>>, DirA \o <<NameNX>>>>
    /\ result = "Cancelled" /\ rxOpen /\ sent = 1
    /\ ~path_exists(files, DirA \o <<NameK, <<"p">> >>)
    /\ path_exists(files, DirA \o <<NameNX>>)

\* Source number l and its destination name are as before the operation, as
\* far as the first `cur` items do not involve the same paths.
LaterUntouched(fs, cur, l) ==
    LET s == op.sources[l] IN
    /\ (/\ path_exists(Initial, s)
        /\ \A i \in 1..cur : op.sources[i] # s /\ DestOf(op.sources[i]) # s) =>
            \A p \in DOMAIN Initial :
                IsPrefix(s, p) => (p \in DOMAIN fs /\ fs[p] = Initial[p])
    /\ (op.kind # "delete" /\ \A i \in 1..cur : Last(op.sources[i]) # Last(s)) =>
            \A p \in DOMAIN fs \cup DOMAIN Initial :
                IsPrefix(DestOf(s), p) =>
                    (p \in DOMAIN fs /\ p \in DOMAIN Initial /\ fs[p] = Initial[p])

\* The item the operation is working on: 0 before the first.
CurrentItem ==
    IF stack[1].fn = "copy_files"
    THEN (IF Len(stack) > 1 THEN stack[1].i - 1 ELSE 0)
    ELSE stack[1].i

\* Item j cannot be processed: its path is absent when its turn comes.
MissingAtTurn(j) ==
    /\ ~path_exists(Initial, op.sources[j])
    /\ op.kind = "move" => \A i \in 1..(j - 1) : Last(op.sources[i]) # Last(op.sources[j])

IsError(r) == r \notin {"none", "Ok", "Cancelled"}

\* C18: the step at which an item fails ends the operation with the error;
\* it changes nothing but that item's own destination, so what earlier items
\* did stays and every later item is untouched, and nothing happens
\* afterwards; an operation given a path that is absent at its turn never
\* returns Ok and never touches the items after it.
C18_AbortOnError ==
    /\ [](op.kind \in {"copy", "move", "delete"} =>
            \A j \in 1..Len(op.sources) :
                MissingAtTurn(j) =>
                    /\ result # "Ok"
                    /\ \A l \in (j + 1)..Len(op.sources) : LaterUntouched(files, j, l))
    /\ [][/\ (result = "none" /\ IsError(result')) =>
                /\ pc' = "done" /\ stack' = <<>> /\ sent' = sent
                /\ \A p \in DOMAIN files \cup DOMAIN files' :
                      (CurrentItem = 0 \/ p # DestOf(op.sources[CurrentItem])) =>
                          (p \in DOMAIN files /\ p \in DOMAIN files' /\ files'[p] = files[p])
                /\ \A l \in (CurrentItem + 1)..Len(op.sources) :
                      LaterUntouched(files', CurrentItem, l)
          /\ IsError(result) => (files' = files /\ sent' = sent /\ result' = result)]_vars

C18_Witness ==
    /\ op.kind = "move" /\ op.setup.destDev = 2 /\ op.setup.size > 0
    /\ op.sources = <<DirA \o <<NameK>>, DirA \o <<NameNX>>>>
    /\ result = "Io" /\ rxOpen /\ sent = 2
    /\ path_exists(files, DirD \o <<NameK, <<"p">> >>)
    /\ Untouched(DirA \o <<NameNX>>)
    /\ ~path_exists(files, DirD \o <<NameNX>>)

-----------------------------------------------------------------------------
(* Metadata-cache claims *)

\* The key a stat result is looked up under.
KeyOf(md) == IF fsys.unix THEN md.ino ELSE 0

\* The cached entries stored under key k.
Held(c, k) == {c.items[i].value.entry : i \in {j \in 1..Len(c.items) : c.items[j].key = k}}

OtherItems(c, k) == {it \in Range(c.items) : it.key # k}

\* C19: the lookup of get_or_fetch returns the cached entry exactly when one
\* is stored under the inode of the fresh stat with the same size and the
\* same modified time; otherwise the call reads the metadata in full,
\* stores the entry read under that inode in place of any other, and
\* returns it; a call during which the file does not change returns the
\* file's present size and modified time, and the cache holds what it
\* returned.
C19_HitIffValid ==
    /\ [](\A t \in Threads :
            LET c == cth[t] IN
            (/\ c.pc = "idle" /\ c.fn = "get_or_fetch" /\ c.status = "Ok"
             /\ c.called_at = now) =>
                LET i == fsys.names[c.path] IN
                /\ c.returned.size = fsys.inodes[i].size
                /\ c.returned.modified = fsys.inodes[i].modified
                /\ c.returned \in Held(cache, IF fsys.unix THEN i ELSE 0))
    /\ [][\A t \in Threads :
            LET c == cth[t]
                d == cth'[t]
                k == KeyOf(c.metadata)
                valid == {e \in Held(cache, k) : /\ e.size = c.metadata.size
                                                 /\ e.modified = c.metadata.modified}
            IN  /\ (c.pc = "gof_lookup" /\ d # c) =>
                      /\ Range(cache'.items) = Range(cache.items)
                      /\ IF valid # {}
                         THEN /\ d.pc = "idle" /\ d.status = "Ok" /\ d.hit
                              /\ d.returned \in valid
                              /\ d.full_reads = 0
                         ELSE d.pc = "gof_read"
                /\ (c.pc = "gof_read" /\ d # c) =>
                      /\ d.full_reads = 1
                      /\ cache' = cache
                      /\ (c.path \in DOMAIN fsys.names /\ c.path # RootPath) =>
                            /\ d.pc = "gof_insert"
                            /\ d.entry.path = c.path
                            /\ d.entry.size = fsys.inodes[fsys.names[c.path]].size
                            /\ d.entry.modified = fsys.inodes[fsys.names[c.path]].modified
                /\ (c.pc = "gof_insert" /\ d # c) =>
                      /\ d.pc = "idle" /\ d.status = "Ok" /\ ~d.hit
                      /\ d.returned = c.entry
                      /\ Held(cache', k) = {c.entry}
                      /\ cache'.items[1].key = k
                      /\ OtherItems(cache', k) = OtherItems(cache, k)]_vars

C19_Witness ==
    \E t \in Threads :
        /\ cth[t].pc = "idle" /\ cth[t].fn = "get_or_fetch" /\ cth[t].status = "Ok"
        /\ ~cth[t].hit /\ cth[t].full_reads = 1
        /\ cth[t].called_at = now /\ now = 1
        /\ cth[t].returned.size = 4096 /\ cth[t].returned.modified = 2
        /\ Len(cache.items) = 1

\* A get_or_fetch of thread t is at its lookup, the call before it was a
\* get_or_fetch of the same path that returned Ok, and no file has changed
\* since that call was made.
SecondCall(t) ==
    /\ cth[t].pc = "gof_lookup"
    /\ lastFetch # NoFetch
    /\ lastFetch.path = cth[t].path
    /\ lastFetch.called_at = now

\* C20 as claimed: the second of two successive get_or_fetch calls on an
\* unchanged file is a hit and performs no stat of the file at all.
C20_SecondCallNoStat ==
    [][\A t \in Threads :
          (SecondCall(t) /\ cth'[t] # cth[t]) =>
              /\ cth'[t].pc = "idle" /\ cth'[t].hit
              /\ cth'[t].stat_calls = 0]_vars

\* C20 amended: the second call is a hit that returns the entry of the first
\* call after exactly one stat (the symlink_metadata that validates the
\* cached entry), with no full metadata read and no change to the cache's
\* content.
C20_SecondCallHit ==
    [][\A t \in Threads :
          (SecondCall(t) /\ cth'[t] # cth[t]) =>
              /\ cth'[t].pc = "idle" /\ cth'[t].hit /\ cth'[t].status = "Ok"
              /\ cth'[t].returned = lastFetch.entry
              /\ cth'[t].stat_calls = 1
              /\ cth'[t].full_reads = 0
              /\ Range(cache'.items) = Range(cache.items)]_vars

C20_Witness ==
    \E t \in Threads :
        /\ cth[t].pc = "idle" /\ cth[t].fn = "get_or_fetch" /\ cth[t].status = "Ok"
        /\ cth[t].hit /\ cth[t].stat_calls = 1 /\ cth[t].full_reads = 0
        /\ lastFetch.path = PathB /\ lastFetch.called_at = now /\ now = MaxFsChanges
        /\ cth[t].returned.path = PathB

\* The items of c without those stored under key k, in their order.
ItemsExcept(c, k) == SelectSeq(c.items, LAMBDA it : it.key # k)

\* C21: invalidate(path) on an existing path removes the entry stored under
\* the identity its stat of the path has just resolved and leaves every
\* other entry in place; a get_or_fetch of the same path that follows it,
\* the files being unchanged, is a miss that reads the metadata in full.
C21_InvalidateRemovesOne ==
    /\ [](\A t \in Threads :
            LET c == cth[t] IN
            (/\ c.pc = "idle" /\ c.fn = "get_or_fetch" /\ c.after_inval
             /\ c.status = "Ok") => (~c.hit /\ c.full_reads = 1))
    /\ [][\A t \in Threads :
            LET c == cth[t]
                d == cth'[t]
                k == KeyOf(c.metadata)
            IN  /\ (c.pc = "idle" /\ d.fn = "invalidate" /\ d # c) =>
                      /\ cache' = cache
                      /\ IF d.path \in DOMAIN fsys.names
                         THEN d.pc = "inv_remove"
                         ELSE d.pc = "idle" /\ d.status = "Io"
                /\ (c.pc = "inv_remove" /\ d # c) =>
                      /\ d.pc = "idle" /\ d.status = "Ok"
                      /\ Held(cache', k) = {}
                      /\ cache'.items = ItemsExcept(cache, k)
                      /\ Len(cache'.items) >= Len(cache.items) - 1]_vars

C21_Witness ==
    \E t \in Threads :
        /\ cth[t].pc = "idle" /\ cth[t].fn = "get_or_fetch" /\ cth[t].after_inval
        /\ cth[t].status = "Ok" /\ ~cth[t].hit
        /\ cth[t].path = PathA
        /\ Len(cache.items) = 2

\* The items of c whose recorded path is not rooted under dir, in their order.
ItemsOutside(c, dir) ==
    SelectSeq(c.items, LAMBDA it : ~IsPrefix(dir, it.value.entry.path))

\* C22: invalidate_directory(prefix), with no other cache operation running,
\* removes every entry whose recorded path is rooted under prefix and no
\* other entry.
C22_InvalidateDirectory ==
    [][\A t \in Threads :
          LET c == cth[t]
              d == cth'[t]
          IN  /\ (c.pc = "idle" /\ d.fn = "invalidate_directory" /\ d # c) =>
                    /\ cache' = cache
                    /\ d.pc = "invdir_pop"
              /\ (c.pc = "invdir_pop" /\ d # c) =>
                    /\ d.pc = "idle" /\ d.status = "Ok"
                    /\ cache'.items = ItemsOutside(cache, c.path)]_vars

C22_Witness ==
    \E t \in Threads :
        /\ cth[t].pc = "idle" /\ cth[t].fn = "invalidate_directory"
        /\ cth[t].status = "Ok" /\ cth[t].removed = 1
        /\ Len(cache.items) = 1
        /\ ~IsPrefix(cth[t].path, cache.items[1].value.entry.path)

\* The call of thread t is between two of its critical sections.
MidCall(t) == cth[t].pc \in {"gof_read", "gof_insert", "invdir_pop"}

\* C23: a cache operation is atomic with respect to the operations of other
\* threads: the map does not change between an operation's lookup or
\* traversal and its update, and invalidate_directory removes no entry
\* whose recorded path is outside the prefix.
C23_OperationsAtomic ==
    [][\A t \in Callers :
          LET c == cth[t]
              d == cth'[t]
          IN  /\ (MidCall(t) /\ d = c) => cache' = cache
              /\ (c.pc = "invdir_pop" /\ d # c) =>
                    \A it \in Range(cache.items) :
                        it.key \notin {cache'.items[j].key : j \in 1..Len(cache'.items)}
                            => IsPrefix(c.path, it.value.entry.path)]_vars

\* C24: the map never holds more entries than its capacity, the capacity is
\* at least DEFAULT_CACHE_SIZE whatever the budget (0 MB included), and an
\* insert of a new key into a full map drops the least recently used entry,
\* the last in recency order, and nothing else; any other insert drops
\* nothing.
C24_CapacityAndEviction ==
    /\ [](Len(cache.items) <= cache.cap /\ cache.cap >= DEFAULT_CACHE_SIZE)
    /\ [][\A t \in Threads :
            LET d == cth'[t]
                k == d.inode
            IN  (/\ cth[t].pc = "idle" /\ d.pc = "idle" /\ d.fn = "insert" /\ k # 0
                 /\ (d # cth[t] \/ cache' # cache)) =>
                    /\ cache'.items[1].key = k
                    /\ cache'.items[1].value.entry = EntryOf(k)
                    /\ IF ~Holds(cache, k) /\ Len(cache.items) = cache.cap
                       THEN /\ Tail(cache'.items) = Front(cache.items)
                            /\ d.removed = 1
                       ELSE /\ Tail(cache'.items) = ItemsExcept(cache, k)
                            /\ d.removed = 0]_vars

\* Inode 1 was stored first and used again after the map had filled up:
\* the insert of a new key into the full map has dropped the oldest entry
\* of the listing, not inode 1.
C24_Witness ==
    \E t \in Threads :
        /\ cth[t].pc = "idle" /\ cth[t].fn = "insert" /\ cth[t].inode = 2
        /\ cth[t].removed = 1
        /\ Len(cache.items) = cache.cap
        /\ cache.cap = DEFAULT_CACHE_SIZE
        /\ cache.items[2].key = 1
        /\ cache.items[3].key = FreshBase + DEFAULT_CACHE_SIZE - 1
        /\ Last(cache.items).key = FreshBase + 2

-----------------------------------------------------------------------------
(* Watcher claims *)

\* The callback finishes a notification whose kind translates to an event.
Translating == cb.pc = "table" /\ cb'.pc = "idle" /\ translate(cb.event) # None

\* The debounce test of convert_event for a notification on `path` taken at `at`.
Recent(path, at) ==
    /\ path \in DOMAIN watched_paths
    /\ duration_since(at, watched_paths[path]) < debounce_duration

\* C25: of two successive notifications on one path, the first having
\* produced an event, the second produces none when it comes less than a
\* debounce window after the first and produces one when it comes more
\* than a window after it; a notification on a path the table does not
\* hold is never suppressed.
C25_Debounce ==
    [][Translating =>
          LET path == cb.event.paths[1]
              prev == whist.last
              gap == cb.now - prev.at
          IN  /\ (prev.path = path /\ prev.emitted /\ gap < debounce_duration) =>
                    wsent' = wsent
              /\ (prev.path = path /\ prev.emitted /\ gap > debounce_duration) =>
                    Len(wsent') = Len(wsent) + 1
              /\ ~is_watching(path) => Len(wsent') = Len(wsent) + 1]_vars

\* The event the claim assigns to a notification.
Expected(event) ==
    LET path == event.paths[1] IN
    IF event.paths = <<>> THEN None
    ELSE IF event.kind.tag = "Create" THEN Created(path)
    ELSE IF event.kind.tag = "Remove" THEN Deleted(path)
    ELSE IF event.kind.tag = "Modify" /\ event.kind.sub \in {"Data", "Metadata"}
    THEN Modified(path)
    ELSE IF event.kind.tag = "Modify" /\ event.kind.sub = "Name:Both" /\ Len(event.paths) >= 2
    THEN Renamed(event.paths[1], event.paths[2])
    ELSE None

\* C26: a notification that passes the debounce filter is translated by its
\* kind: create to Created, remove to Deleted, a content or metadata
\* modification to Modified, a rename carrying both paths to one Renamed.
C26_Translation ==
    [][(/\ cb.pc = "table" /\ cb'.pc = "idle"
        /\ cb.event.paths # <<>>
        /\ ~Recent(cb.event.paths[1], cb.now)
        /\ Expected(cb.event) # None) =>
            wsent' = Append(wsent, Expected(cb.event))]_vars

\* C27: is_watching and watched_count reflect exactly the paths added by
\* watch() and not removed by unwatch() or stop(); handling a notification
\* leaves them as they are; watch() and unwatch() leave the debounce test
\* of every path as it is.
C27_WatchedSetIndependent ==
    /\ [](wcaller.pc = "idle" =>
            /\ \A path \in WatchArgs \cup {SiblingB} :
                   is_watching(path) <=> path \in whist.watched
            /\ watched_count = Cardinality(whist.watched))
    /\ [][/\ cb' # cb => DOMAIN watched_paths' = DOMAIN watched_paths
          /\ (wcaller'.fn \in {"watch", "unwatch"} /\ wcaller' # wcaller) =>
                \A path \in WatchArgs \cup {SiblingB} :
                    Recent(path, clock)' <=> Recent(path, clock)]_vars

\* C28: from the return of stop() until the next start(), the handle is
\* gone, the table is empty, no event is sent, and watch() and unwatch()
\* fail with a Watcher error and change nothing.
C28_StopClears ==
    /\ []((wcaller.pc = "idle" /\ ~inner.some) =>
            /\ watched_count = 0
            /\ \A path \in WatchArgs \cup {SiblingB} : ~is_watching(path)
            /\ Len(wsent) = whist.sent_at_stop)
    /\ [][(/\ wcaller.pc = "idle" /\ ~inner.some
           /\ wcaller'.fn \in {"watch", "unwatch"} /\ wcaller' # wcaller) =>
               /\ wcaller'.status = "Watcher"
               /\ UNCHANGED <<inner, watched_paths, wsent>>]_vars

-----------------------------------------------------------------------------
(* Cancellation latency *)

\* The transfer loop of copy_file_with_progress is running.
InTransfer == pc \in {"copy_chunk", "copy_send"}

\* C29: once the token is tripped while the transfer loop runs, the next
\* pass of the loop transfers no chunk and fails with Cancelled, and the
\* operation does return Cancelled, whatever the consumer of the progress
\* channel does.
C29_CancelLatency ==
    /\ [][(cancelled /\ pc = "copy_chunk" /\ pc' # pc) => result' = "Cancelled"]_vars
    /\ ((cancelled /\ InTransfer) ~> (result = "Cancelled"))

-----------------------------------------------------------------------------
(* Invalid paths *)

\* The call was given a destination that is not an existing directory or a
\* source without a file name.
InvalidArgs ==
    \/ ~path_is_dir(PathFiles(op.setup), op.dest_dir)
    \/ \E i \in 1..Len(op.sources) : ~file_name(op.sources[i]).some

\* C30: copy_files and move_files called with a destination that is not an
\* existing directory, or with a source that has no file name, return
\* InvalidPath and leave the file tree as it was (the token not tripped,
\* the receiver alive).
C30_InvalidPath ==
    (pc = "done" /\ InvalidArgs /\ ~cancelled /\ rxOpen) =>
        (result = "InvalidPath" /\ files = PathFiles(op.setup))

-----------------------------------------------------------------------------
(* insert, get, remove *)

\* The entry the map holds under k.
Stored(c, k) == c.items[IndexOf(c.items, k)].value.entry

\* The call that thread t completes in this step.
Completes(t, fn) ==
    /\ cth[t].pc = "idle" /\ cth'[t].pc = "idle" /\ cth'[t].fn = fn
    /\ (cth'[t] # cth[t] \/ cache' # cache)

\* C31: insert(id, e) makes the map hold e under id; get(id) returns the
\* entry held under id, or None when none is held, and changes no entry;
\* remove(id) leaves none under id; an entry stays as it is in every step
\* that is not an insert or remove of its id, a clear, or an insert of new
\* ids that fills the map.
C31_InsertGetRemove ==
    [][\A t \in Threads :
        LET d == cth'[t]
            k == d.inode
        IN  /\ (Completes(t, "insert") /\ k # 0) =>
                  (Holds(cache', k) /\ Stored(cache', k) = d.entry)
            /\ Completes(t, "get") =>
                  /\ d.hit <=> Holds(cache, k)
                  /\ d.status = (IF Holds(cache, k) THEN "Some" ELSE "None")
                  /\ Holds(cache, k) => d.returned = Stored(cache, k)
            /\ Completes(t, "remove") => ~Holds(cache', k)
            /\ \A j \in EntryKeys :
                  (/\ Holds(cache, j)
                   /\ ~(Completes(t, "insert") /\ k = j)
                   /\ ~(Completes(t, "remove") /\ k = j)
                   /\ ~Completes(t, "clear")
                   /\ ~(/\ Completes(t, "insert") /\ ~Holds(cache, k)
                        /\ Len(cache'.items) = cache'.cap)) =>
                      (Holds(cache', j) /\ Stored(cache', j) = Stored(cache, j))]_vars

\* get(1) has returned the second entry inserted under inode 1, after a
\* remove and a get of another inode.
C31_Witness ==
    \E t \in Threads :
        /\ cth[t].pc = "idle" /\ cth[t].fn = "get" /\ cth[t].inode = 1
        /\ cth[t].status = "Some"
        /\ cth[t].returned = EntrySized(1, 4096)
        /\ ~Holds(cache, 2)
        /\ Len(cache.items) = 1

-----------------------------------------------------------------------------
(* Depth limit *)

\* Every batch handed to the channel so far, with the one being sent.
Batches == delivered \o chan \o (IF pending = NoMsg THEN <<>> ELSE <<pending>>)

\* Depth below the scan root of the directory that holds the entry.
DirDepth(e) == Len(e.path) - 2

\* C32: a recursive scan with max_depth = d hands over entries of
\* directories at depth < d only, and a call that finds its directory at
\* depth >= d returns Ok to its caller without failing the scan.
C32_DepthPruned ==
    /\ [](scanner.mode = "recursive" =>
            \A i \in 1..Len(Batches) : \A j \in 1..Len(Batches[i].entries) :
                DirDepth(Batches[i].entries[j]) < scanner.max_depth)
    /\ [][(/\ scanner.mode = "recursive" /\ pc = "call"
           /\ Last(stack).depth >= scanner.max_depth
           /\ pc' # pc) =>
               /\ result' = (IF Len(stack) = 1 THEN "Ok" ELSE "none")
               /\ pc' = (IF Len(stack) = 1 THEN "done" ELSE "descend")
               /\ stack' = Front(stack)]_vars

\* A scan with max_depth = 2 has returned Ok having delivered the entries
\* of r and of r/s, r/s/t among them, and none of r/s/t.
C32_Witness ==
    /\ scanner.mode = "recursive" /\ scanner.max_depth = 2
    /\ pc = "done" /\ result = "Ok"
    /\ \E i \in 1..Len(delivered) : \E j \in 1..Len(delivered[i].entries) :
           delivered[i].entries[j].path = SubDir \o << <<"t">> >>
    /\ \A i \in 1..Len(delivered) : \A j \in 1..Len(delivered[i].entries) :
           delivered[i].entries[j].path # SubDir \o << <<"t">>, <<"c">> >>

-----------------------------------------------------------------------------
(* Parents before children *)

\* The entries handed to the channel so far, in the order of sending.
SentEntries == Flatten(Batches)

\* The entries of directory dir that the scan keeps.
KeptPaths(dir) ==
    LET L == Listing(dir) IN
    {from_path(dir, L[i]).path :
        i \in {k \in 1..Len(L) :
                  /\ from_path(dir, L[k]).ok
                  /\ (scanner.show_hidden \/ ~is_hidden(from_path(dir, L[k])))}}

\* C33: when a recursive scan hands over an entry located below a
\* subdirectory of a directory it has scanned, every entry of that
\* directory has been handed over earlier (the receiver being alive, so
\* that every batch sent is still in the channel or delivered).
C33_ParentsFirst ==
    (scanner.mode = "recursive" /\ rxOpen) =>
        LET paths == [i \in 1..Len(SentEntries) |-> SentEntries[i].path]
            \* the entries located below the root's own level
            deep == {j \in 1..Len(paths) : Len(paths[j]) > 2}
        IN  \A j \in deep :
                LET parent == Front(paths[j])
                    before == {paths[i] : i \in 1..(j - 1)}
                IN  \A n \in 1..(Len(parent) - 1) :
                        KeptPaths(SubSeq(parent, 1, n)) \subseteq before

\* The root holds more than one batch of entries and the scan has handed
\* over an entry of its subdirectory r/s.
C33_Witness ==
    /\ scanner.mode = "recursive" /\ rxOpen
    /\ tree.fill >= BATCH_SIZE
    /\ \E j \in 1..Len(delivered) : \E k \in 1..Len(delivered[j].entries) :
           delivered[j].entries[k].path = SubDir \o << <<"a">> >>

-----------------------------------------------------------------------------
(* Batch sizes *)

\* C34: no batch handed to the channel holds more than BATCH_SIZE entries,
\* and every batch of scan_directory but the last holds exactly BATCH_SIZE.
C34_BatchSizes ==
    /\ \A i \in 1..Len(Batches) : Len(Batches[i].entries) <= BATCH_SIZE
    /\ scanner.mode = "directory" =>
          \A i \in 1..(Len(Batches) - 1) : Len(Batches[i].entries) = BATCH_SIZE

\* scan_directory has delivered a full batch followed by a last, shorter one.
C34_Witness ==
    /\ scanner.mode = "directory"
    /\ pc = "done" /\ result = "Ok"
    /\ Len(delivered) = 2
    /\ Len(delivered[1].entries) = BATCH_SIZE
    /\ Len(delivered[2].entries) \in 1..(BATCH_SIZE - 1)
    /\ delivered[2].is_complete

-----------------------------------------------------------------------------
(* Exhausting the unique-name search *)

\* The numbers 1..MaxAttempts whose sibling does not exist before the call.
FreeNumbers == (1..MaxAttempts) \ op.setup.numbered

\* C35: a copy or move under Rename whose destination exists takes the
\* sibling of the least free number in 1..MaxAttempts, the last one
\* included, and leaves every other file as it was; when no number is free
\* it fails with InvalidOperation and no file is created or changed.
C35_UniqueNameSearch ==
    LET source == DirA \o <<NameNX>>
        free == FreeNumbers
        least == CHOOSE m \in free : \A k \in free : m <= k
        taken == DirD \o <<Sibling(NameNX, least)>>
        before == Initial
        \* the tree before the call with the source placed at `taken`
        after == (taken :> before[source]) @@
                 (IF op.kind = "move" THEN remove_file(before, source) ELSE before)
    IN  /\ free = {} => files = before
        /\ (pc = "done" /\ free = {}) => result = "InvalidOperation"
        /\ (pc = "done" /\ free # {}) => (result = "Ok" /\ files = after)

\* A move has failed with InvalidOperation where all MaxAttempts siblings
\* existed.
C35_Witness ==
    /\ op.kind = "move" /\ op.conflict = "Rename"
    /\ op.setup.numbered = 1..MaxAttempts
    /\ pc = "done" /\ result = "InvalidOperation"

-----------------------------------------------------------------------------
(* What the debounce filter drops *)

\* C36: the filter drops a notification only when an event for the same
\* path was sent less than one debounce window before it.
C36_DropsOnlyAfterEvent ==
    [][(/\ cb.pc = "table" /\ cb'.pc = "idle"
        /\ Recent(cb.event.paths[1], cb.now)) =>
            LET path == cb.event.paths[1] IN
            /\ path \in DOMAIN whist.emitted_at
            /\ cb.now - whist.emitted_at[path] < debounce_duration]_vars

-----------------------------------------------------------------------------
\* The locks.  `inner` and `watched_paths` are parking_lot mutexes, the cache is
\* a parking_lot RwLock.  A call is the sequence of lock steps its body takes,
\* in program order; a guard is released where it goes out of scope.

Mutexes == {"inner", "watched_paths"}

Lock(l)   == [op |-> "lock", lock |-> l]
Unlock(l) == [op |-> "unlock", lock |-> l]
Write     == [op |-> "write", lock |-> "cache"]
Read      == [op |-> "read", lock |-> "cache"]
Unwrite   == [op |-> "unwrite", lock |-> "cache"]
Unread    == [op |-> "unread", lock |-> "cache"]

\* start(): the guard of `*self.inner.lock() = Some(watcher)` is a temporary.
start_steps == <<Lock("inner"), Unlock("inner")>>

\* watch() and unwatch(): the guard `watcher` lives to the end of the function;
\* with a handle and a successful backend call the table is locked under it.
watch_steps(registers) ==
    IF registers
    THEN <<Lock("inner"), Lock("watched_paths"), Unlock("watched_paths"), Unlock("inner")>>
    ELSE <<Lock("inner"), Unlock("inner")>>

unwatch_steps(registers) == watch_steps(registers)

\* stop() with the table locked before the handle.
stop_steps_nested ==
    <<Lock("watched_paths"), Lock("inner"), Unlock("inner"), Unlock("watched_paths")>>

\* stop(): two statements, each with a temporary guard.
stop_steps ==
    <<Lock("inner"), Unlock("inner"), Lock("watched_paths"), Unlock("watched_paths")>>

\* is_watching() and watched_count().
is_watching_steps == <<Lock("watched_paths"), Unlock("watched_paths")>>

\* convert_event(): nothing for an event without paths, else the table in a block.
callback_steps(has_paths) ==
    IF has_paths THEN <<Lock("watched_paths"), Unlock("watched_paths")>> ELSE <<>>

\* get(), insert(), remove(), clear(): one write guard.
get_steps == <<Write, Unwrite>>

\* len() and capacity(): one read guard.
len_steps == <<Read, Unread>>

\* get_or_fetch(): self.get(), and self.insert() unless the hit is valid.
get_or_fetch_steps(valid_hit) ==
    IF valid_hit THEN get_steps ELSE get_steps \o get_steps

\* invalidate_directory(): the read guard ends with its block, then the write guard.
invalidate_directory_steps == <<Read, Unread, Write, Unwrite>>

CallerPrograms ==
    {[call |-> "start", steps |-> start_steps],
     [call |-> "stop", steps |-> stop_steps],
     [call |-> "is_watching", steps |-> is_watching_steps],
     [call |-> "get", steps |-> get_steps],
     [call |-> "len", steps |-> len_steps],
     [call |-> "invalidate_directory", steps |-> invalidate_directory_steps]}
    \cup {[call |-> "watch", steps |-> watch_steps(b)] : b \in BOOLEAN}
    \cup {[call |-> "unwatch", steps |-> unwatch_steps(b)] : b \in BOOLEAN}
    \cup {[call |-> "get_or_fetch", steps |-> get_or_fetch_steps(b)] : b \in BOOLEAN}

CallbackPrograms ==
    {[call |-> "convert_event", steps |-> callback_steps(TRUE)]}

\* The locks thread t holds.
Guards(t) ==
    {l \in Mutexes : locks.mutex[l] = t}
    \cup (IF locks.writer = t \/ t \in locks.readers THEN {"cache"} ELSE {})

\* The threads whose guards keep `step` from being taken.
Holders(step) ==
    CASE step.op = "lock"  -> IF locks.mutex[step.lock] = "free" THEN {}
                              ELSE {locks.mutex[step.lock]}
      [] step.op = "write" -> (IF locks.writer = "free" THEN {} ELSE {locks.writer})
                              \cup locks.readers
      [] step.op = "read"  -> IF locks.writer = "free" THEN {} ELSE {locks.writer}
      [] OTHER             -> {}

Acquires(step) == step.op \in {"lock", "write", "read"}

InCall(t) == locks.steps[t] # <<>>

NextStep(t) == Head(locks.steps[t])

Blocked(t) == InCall(t) /\ Acquires(NextStep(t)) /\ Holders(NextStep(t)) # {}

\* Thread t enters a call.
LockCall(t, program) ==
    /\ ~InCall(t)
    /\ program.steps # <<>>
    /\ locks' = [locks EXCEPT !.call[t] = program.call, !.steps[t] = program.steps]

\* Thread t takes the lock its next step asks for, once nobody is in its way.
LockAcquire(t) ==
    /\ InCall(t)
    /\ Acquires(NextStep(t))
    /\ Holders(NextStep(t)) = {}
    /\ LET step == NextStep(t)
           taken == CASE step.op = "lock"  -> [locks EXCEPT !.mutex[step.lock] = t]
                      [] step.op = "write" -> [locks EXCEPT !.writer = t]
                      [] OTHER             -> [locks EXCEPT !.readers = @ \cup {t}]
       IN  locks' = [taken EXCEPT !.steps[t] = Tail(@)]

\* Thread t drops a guard; the call is over with its last step.
LockRelease(t) ==
    /\ InCall(t)
    /\ ~Acquires(NextStep(t))
    /\ LET step == NextStep(t)
           freed == CASE step.op = "unlock"  -> [locks EXCEPT !.mutex[step.lock] = "free"]
                      [] step.op = "unwrite" -> [locks EXCEPT !.writer = "free"]
                      [] OTHER               -> [locks EXCEPT !.readers = @ \ {t}]
           rest == Tail(locks.steps[t])
       IN  locks' = [freed EXCEPT !.steps[t] = rest,
                                  !.call[t] = IF rest = <<>> THEN "none" ELSE @]

LockNext ==
    /\ \/ \E t \in LockCallers : \E program \in CallerPrograms : LockCall(t, program)
       \/ \E program \in CallbackPrograms : LockCall("notify", program)
       \/ \E t \in LockThreads : LockAcquire(t)
       \/ \E t \in LockThreads : LockRelease(t)
    /\ UNCHANGED <<scanVars, opVars, cacheVars>>
    /\ UNCHANGED <<inner, watched_paths, clock, cb, wcaller, wsent, whist>>
    /\ UNCHANGED <<pc, stack, pending, chan, delivered, sent, rxOpen, cancelled, result>>

LockSpec == WatcherInit /\ [][LockNext]_vars

\* A set of threads each waiting for a guard another member holds.
Deadlocked(S) ==
    /\ S # {}
    /\ \A t \in S : Blocked(t) /\ Holders(NextStep(t)) \cap S # {}

NoDeadlock == \A S \in SUBSET LockThreads : ~Deadlocked(S)

\* C37 (as stated): no thread acquires a lock while holding another, so a
\* thread never holds two of the cache lock, the handle lock and the table lock.
C37_OneLockAtATime ==
    \A t \in LockThreads : Cardinality(Guards(t)) <= 1

\* C37 (amended): a thread acquires a lock while holding another only in
\* watch() and unwatch(), where the table lock is taken under the handle lock;
\* the handle lock and the cache lock are never taken under another lock, and
\* no set of threads ever waits for one another.
C37_LockOrder ==
    /\ []NoDeadlock
    /\ [][\A t \in LockThreads :
            (Guards(t) # {} /\ InCall(t) /\ Acquires(NextStep(t))
                 /\ locks'.steps[t] # locks.steps[t])
            => /\ Guards(t) = {"inner"}
               /\ NextStep(t).lock = "watched_paths"
               /\ locks.call[t] \in {"watch", "unwatch"}]_vars

\* A caller inside watch() holds both watcher locks while the other caller and
\* the callback wait for them.
C37_Witness ==
    \E t \in LockCallers :
        /\ locks.call[t] = "watch"
        /\ Guards(t) = {"inner", "watched_paths"}
        /\ \A u \in LockThreads \ {t} : Blocked(u)

\* C38: every progress message of copy_files has files_processed <=
\* total_files, and a copy that skipped nothing and is about to return Ok has
\* processed exactly total_files files, directory sources included.
C38_ProcessedWithinTotal ==
    op.kind = "copy" =>
        /\ \A i \in 1..Len(AllSent) :
               AllSent[i].files_processed <= AllSent[i].total_files
        /\ (/\ pc = "copy_src"
            /\ Len(stack) = 1
            /\ stack[1].i > Len(stack[1].sources)
            /\ op.conflict # "Skip")
           => stack[1].files_processed = stack[1].total_files

\* C39: the entry get_or_fetch(path) returns has `path` as its path, whatever
\* the identities of the files involved (hard links, equal inode numbers, the
\* zero identity of a platform without inodes).
C39_ReturnedPath ==
    \A t \in Threads :
        (cth[t].fn = "get_or_fetch" /\ cth[t].pc = "idle" /\ cth[t].status = "Ok")
        => cth[t].returned.path = cth[t].path

\* What a file holds: whose bytes and how many of them.
Content(node) == <<node.id, node.len>>

\* C40: when copy_files under Overwrite returns Cancelled or an error, every
\* file that was in the destination directory before the call is still there,
\* holding what it held or the whole content of the source of the same name
\* (sources taken from outside the destination directory).
C40_OverwriteKeepsDestination ==
    LET before == InitialFiles(op.setup)
        kept == {p \in DOMAIN before :
                    /\ Len(p) = Len(op.dest_dir) + 1
                    /\ IsPrefix(op.dest_dir, p)
                    /\ before[p].kind = "file"}
    IN  (/\ op.kind = "copy"
         /\ op.conflict = "Overwrite"
         /\ \A j \in 1..Len(op.sources) : ~IsPrefix(op.dest_dir, op.sources[j])
         /\ pc = "done"
         /\ result # "Ok")
        => \A p \in kept :
               /\ p \in DOMAIN files
               /\ files[p].kind = "file"
               /\ \/ Content(files[p]) = Content(before[p])
                  \/ \E j \in 1..Len(op.sources) :
                         /\ op.sources[j] \in DOMAIN before
                         /\ before[op.sources[j]].kind = "file"
                         /\ Last(op.sources[j]) = Last(p)
                         /\ Content(files[p]) = Content(before[op.sources[j]])

=============================================================================
